---- MODULE Spec2Model ----
(***************************************************************************)
(* Verification model of the Agents-Stock dashboard: the DuPont TTM        *)
(* computation, the JSON extraction from model responses, the API-key      *)
(* lookup, the P/E trailing merge and the analysis run of app.py.          *)
(***************************************************************************)
EXTENDS Integers, Sequences, FiniteSets, TLC

VARIABLES
    \* -- FundamentalAnalyst.compute_rolling_dupont --
    income,        \* income statement table  [cols, rows]
    balance,       \* balance sheet table     [cols, rows]
    dupont,        \* returned DuPont table (sequence of rows)
    dupontRaised,  \* "none" or the exception compute_rolling_dupont raised
    dpc,           \* "start" | "done"
    \* -- response parsing (analysts' parse step, extract_and_parse_ai_json) --
    text,          \* the model's response text, a sequence of tokens
    analyst,       \* which analyst parses it
    page,          \* which script's extract_and_parse_ai_json displays it
    response,      \* the AnalysisResponse of the parse step
    ai_json,       \* what extract_and_parse_ai_json / parse_json_from_markdown returned
    shown,         \* what parse_json_from_markdown put on the screen
    parseRaised,   \* "none" or the exception that escaped
    ppc,           \* "start" | "parsed" | "done"
    \* -- get_api_key of price.py, fundamental.py and pe.py --
    secrets,       \* st.secrets: [has, val] for the entry GEMINI_API_KEY
    environ,       \* os.environ: [has, val] for GEMINI_API_KEY
    config,        \* config.json: [state, has, val]
    script,        \* which script's get_api_key runs
    api_key_result,\* what get_api_key returned
    kpc,           \* "start" | "done"
    \* -- DataProcessor.merge_price_ratio --
    price_df,      \* rows [time, close, Nam, Ky], newest first
    ratio_df,      \* rows [Nam, Ky, EPS], newest first
    outs,          \* the frames returned by the calls made so far
    mpc,           \* "idle" | "ready"
    \* -- app.py main: one run of the page script --
    apc,           \* [stage, at]: where main stands
    code,          \* the access code typed into the sidebar
    symbol,        \* the ticker typed into the sidebar
    api_key,       \* cfg.get(code, "")
    in_flight,     \* analysts whose generate_content request is in flight
    requests,      \* analyst -> requests issued to the model API
    outcome,       \* analyst -> how its analysis ended
    banners,       \* st.info / st.error / st.warning banners shown
    tabs,          \* TRUE once the three tabs are rendered
    \* -- DataProcessor.calculate_pe_distribution_stats --
    pe_table,      \* the frame handed in: [has_column, rows], newest first
    stats_dict,    \* the dict returned
    spc,           \* "idle" | "start" | "done"
    \* -- config.json, display_api_key_warning and AnalysisPipeline() --
    config_json,   \* the config.json file
    config_manager,\* config._config_manager: None or the loaded api_keys
    warning,       \* what display_api_key_warning returned
    pipeline,      \* GoldenKeyDashboard.pipeline and what its construction raised
    cpc,           \* position in GoldenKeyDashboard.render
    \* -- AnalysisPipeline.batch_analysis --
    symbols,       \* the symbols argument
    max_concurrent,\* the max_concurrent argument
    semaphore,     \* free permits of asyncio.Semaphore(max_concurrent)
    tasks,         \* per symbol, where analyze_with_semaphore is and what it returned
    results,       \* the results dict, as a set of entries
    completed,     \* number of results collected
    bpc,           \* position in batch_analysis
    \* -- GoldenKeyDashboard: the should_analyze trigger --
    stock_input,   \* text of the stock_input_widget
    analyze_button,\* the analyse button was clicked for this script run
    should_analyze,\* st.session_state.should_analyze
    selected_symbol,\* st.session_state.selected_symbol
    gpc,           \* position of the script run
    clicks,        \* clicks of the analyse button so far
    analyses,      \* analyses started so far
    rendered,      \* how render_main_analysis of this run returned
    \* -- TechnicalAnalyst._parse_response on a JSON object --
    tech_data,     \* the object json.loads returned
    tech_response, \* the AnalysisResponse returned
    tpc,           \* position in TechnicalAnalyst.analyze
    \* -- PriceAPI (price_api.py) --
    quote_history, \* what Quote.history returns
    enhanced,      \* the call of get_enhanced_price_history and its result
    comprehensive, \* the call of get_comprehensive_analysis and its result
    \* -- PEValuationAnalyst.analyze: the data placed in the prompt --
    petrailing_df, \* the table compute_pe_trailing returned
    analysis_data, \* latest_pe, latest_price and data_analyst of the prompt
    vpc            \* position in PEValuationAnalyst.analyze

dupontVars == <<income, balance, dupont, dupontRaised, dpc>>
parseVars  == <<text, analyst, page, response, ai_json, shown, parseRaised, ppc>>
keyVars    == <<secrets, environ, config, script, api_key_result, kpc>>
mergeVars  == <<price_df, ratio_df, outs, mpc>>
appVars    == <<apc, code, symbol, api_key, in_flight, requests, outcome,
                banners, tabs>>
statsVars  == <<pe_table, stats_dict, spc>>
cfgVars    == <<config_json, config_manager, warning, pipeline, cpc>>
batchVars  == <<symbols, max_concurrent, semaphore, tasks, results, completed, bpc>>
dashVars   == <<stock_input, analyze_button, should_analyze, selected_symbol, gpc, clicks, analyses, rendered>>
techVars   == <<tech_data, tech_response, tpc>>
priceVars  == <<quote_history, enhanced, comprehensive>>
peVars     == <<petrailing_df, analysis_data, vpc>>
vars       == <<dupontVars, parseVars, keyVars, mergeVars, appVars,
                statsVars, cfgVars, batchVars, dashVars, techVars, priceVars, peVars>>

(***************************************************************************)
(* Floating-point values.  A value is a pair <<n, d>>: the rational n/d    *)
(* (d > 0, lowest terms), or with d = 0 one of the IEEE specials           *)
(* <<0,0>> = NaN, <<1,0>> = +inf, <<-1,0>> = -inf.  The sign of zero is    *)
(* not tracked.                                                            *)
(***************************************************************************)
AbsI(n) == IF n < 0 THEN -n ELSE n
SgnI(n) == IF n < 0 THEN -1 ELSE IF n > 0 THEN 1 ELSE 0

RECURSIVE Gcd(_, _)
Gcd(a, b) == IF b = 0 THEN a ELSE Gcd(b, a % b)

NaN    == <<0, 0>>
PosInf == <<1, 0>>
NegInf == <<-1, 0>>
Num(n) == <<n, 1>>

IsNaN(x)    == x = NaN
IsInf(x)    == x[2] = 0 /\ x[1] # 0
IsFinite(x) == x[2] > 0
SgnF(x)     == SgnI(x[1])

\* n/d with d >= 0 brought to the canonical form
Norm(n, d) ==
    IF d = 0 THEN <<SgnI(n), 0>>
    ELSE LET g == Gcd(AbsI(n), d) IN <<SgnI(n) * (AbsI(n) \div g), d \div g>>

FAdd(a, b) ==
    IF IsNaN(a) \/ IsNaN(b) THEN NaN
    ELSE IF IsInf(a) /\ IsInf(b) THEN (IF a = b THEN a ELSE NaN)
    ELSE IF IsInf(a) THEN a
    ELSE IF IsInf(b) THEN b
    ELSE Norm(a[1] * b[2] + b[1] * a[2], a[2] * b[2])

FMul(a, b) ==
    IF IsNaN(a) \/ IsNaN(b) THEN NaN
    ELSE IF IsInf(a) \/ IsInf(b)
         THEN (IF SgnF(a) = 0 \/ SgnF(b) = 0 THEN NaN ELSE <<SgnF(a) * SgnF(b), 0>>)
    ELSE Norm(a[1] * b[1], a[2] * b[2])

\* pandas / numpy true division: x/0 is +-inf, 0/0 is NaN, nothing raises
FDiv(a, b) ==
    IF IsNaN(a) \/ IsNaN(b) THEN NaN
    ELSE IF IsInf(a) THEN (IF IsInf(b) THEN NaN
                           ELSE <<SgnF(a) * (IF SgnF(b) < 0 THEN -1 ELSE 1), 0>>)
    ELSE IF IsInf(b) THEN Num(0)
    ELSE IF b[1] = 0 THEN <<SgnF(a), 0>>
    ELSE Norm(a[1] * b[2] * SgnI(b[1]), a[2] * AbsI(b[1]))

\* round-half-to-even of the non-negative rational n/d to an integer
HalfEven(n, d) ==
    LET q == n \div d
        r == n % d
    IN  IF 2 * r < d THEN q
        ELSE IF 2 * r > d THEN q + 1
        ELSE IF q % 2 = 0 THEN q ELSE q + 1

\* Series.round(k): to k decimals, NaN and +-inf pass through
RoundTo(x, scale) ==
    IF ~IsFinite(x) THEN x
    ELSE Norm(SgnF(x) * HalfEven(AbsI(x[1]) * scale, x[2]), scale)

\* Series.fillna(0): only NaN is replaced, +-inf is not a missing value
FillNa0(x) == IF IsNaN(x) THEN Num(0) ELSE x

FLeq(a, b) == a[1] * b[2] <= b[1] * a[2]    \* finite a, b only
FAbs(x)    == <<AbsI(x[1]), x[2]>>
FNeg(x)    == <<-x[1], x[2]>>


(***************************************************************************)
(* FundamentalAnalyst.compute_rolling_dupont                               *)
(* Columns: DoanhThuThuan = "Doanh thu thuần", LoiNhuanCongTyMe = "Lợi     *)
(* nhuận sau thuế của Cổ đông công ty mẹ (đồng)", TongCongTaiSan = "TỔNG   *)
(* CỘNG TÀI SẢN (đồng)", VonChuSoHuu = "VỐN CHỦ SỞ HỮU (đồng)",            *)
(* Nam = "Năm", Ky = "Kỳ".                                                 *)
(***************************************************************************)
MaxRows == 5          \* quarters in the statements drawn by Init

Window     == 4       \* rolling(window=4, ...)
MinPeriods == 1       \* rolling(..., min_periods=1)
Decimals   == 2       \* df[col].round(2)

Pow10(k) == IF k = 0 THEN 1 ELSE IF k = 1 THEN 10 ELSE 100

KeyCols     == {"CP", "Nam", "Ky"}
income_cols == <<"DoanhThuThuan", "LoiNhuanCongTyMe">>
balance_cols == <<"TongCongTaiSan", "VonChuSoHuu">>
NumericCols == {income_cols[1], income_cols[2], balance_cols[1], balance_cols[2]}

Industries == {"Nhom1", "Nhom2", "Nhom3"}

\* IndustryConfig.income_fields / balance_fields, restricted to the key
\* columns and the columns compute_rolling_dupont reads
IncomeFields(ind) ==
    IF ind = "Nhom2" THEN KeyCols \cup {"LoiNhuanCongTyMe"}
    ELSE KeyCols \cup {"DoanhThuThuan", "LoiNhuanCongTyMe"}
BalanceFields(ind) == KeyCols \cup {"TongCongTaiSan", "VonChuSoHuu"}

\* A raw cell of a statement: a float (NaN when the provider left it empty)
\* or a non-numeric text
Cell(v)  == [text |-> FALSE, val |-> v]
TextCell == [text |-> TRUE, val |-> NaN]

\* pd.to_numeric(col, errors='coerce').fillna(0)
ToNumericCoerce(c) == IF c.text THEN NaN ELSE c.val
EnsureNumeric(c)   == Cell(FillNa0(ToNumericCoerce(c)))

YearOf(t)    == 2020 + ((t - 1) \div 4)
QuarterOf(t) == ((t - 1) % 4) + 1

SameKey(a, b) == a.CP = b.CP /\ a.Nam = b.Nam /\ a.Ky = b.Ky
KeyLess(a, b) == a.Nam < b.Nam \/ (a.Nam = b.Nam /\ a.Ky < b.Ky)

\* pd.merge(left, right, on=['CP','Năm','Kỳ'], how='inner'): left order kept,
\* one output row per matching pair
RECURSIVE MergeRowInner(_, _)
MergeRowInner(l, rs) ==
    IF rs = <<>> THEN <<>>
    ELSE (IF SameKey(l, Head(rs)) THEN <<l @@ Head(rs)>> ELSE <<>>)
         \o MergeRowInner(l, Tail(rs))

RECURSIVE MergeInnerRows(_, _)
MergeInnerRows(ls, rs) ==
    IF ls = <<>> THEN <<>>
    ELSE MergeRowInner(Head(ls), rs) \o MergeInnerRows(Tail(ls), rs)

MergeInner(left, right) ==
    [cols |-> left.cols \cup right.cols, rows |-> MergeInnerRows(left.rows, right.rows)]

\* stable sort of rows by (Năm, Kỳ) ascending
RECURSIVE InsertAsc(_, _)
InsertAsc(r, s) ==
    IF s = <<>> THEN <<r>>
    ELSE IF KeyLess(r, Head(s)) THEN <<r>> \o s
    ELSE <<Head(s)>> \o InsertAsc(r, Tail(s))

RECURSIVE SortAsc(_)
SortAsc(s) ==
    IF s = <<>> THEN <<>>
    ELSE InsertAsc(s[Len(s)], SortAsc(SubSeq(s, 1, Len(s) - 1)))

RECURSIVE Reverse(_)
Reverse(s) == IF s = <<>> THEN <<>> ELSE Reverse(Tail(s)) \o <<Head(s)>>

\* sort_values(['Năm','Kỳ'], ascending=[False, False])
SortDesc(s) == Reverse(SortAsc(Reverse(s)))

RECURSIVE SumF(_)
SumF(s) == IF s = <<>> THEN Num(0) ELSE FAdd(Head(s), SumF(Tail(s)))

\* a mutant of WindowObs: an expanding window, every row up to row i
WindowObsAll(rows, c, i) ==
    SelectSeq([k \in 1..i |-> rows[k][c].val], LAMBDA v : ~IsNaN(v))

\* the observations of column c in the window that ends at row i
WindowObs(rows, c, i) ==
    LET lo  == IF i - Window + 1 < 1 THEN 1 ELSE i - Window + 1
        win == [k \in 1..(i - lo + 1) |-> rows[lo + k - 1][c].val]
    IN  SelectSeq(win, LAMBDA v : ~IsNaN(v))

\* Series.rolling(window=4, min_periods=1).sum() at row i
RollingSum(rows, c, i) ==
    LET obs == WindowObs(rows, c, i)
    IN  IF Len(obs) < MinPeriods THEN NaN ELSE SumF(obs)

\* Series.rolling(window=4, min_periods=1).mean() at row i
RollingMean(rows, c, i) ==
    LET obs == WindowObs(rows, c, i)
    IN  IF Len(obs) < MinPeriods THEN NaN ELSE FDiv(SumF(obs), Num(Len(obs)))

\* df[col].round(2)  (a mutant of RoundFill: the NaN handling is left out)
RoundOnly(x) == RoundTo(x, Pow10(Decimals))

\* df[col].round(2).fillna(0)
RoundFill(x) == FillNa0(RoundTo(x, Pow10(Decimals)))

\* the DuPont components of row i of the merged, sorted, numeric table
DupontRow(rows, i) ==
    LET revenue_ttm    == RollingSum(rows, "DoanhThuThuan", i)
        net_income_ttm == RollingSum(rows, "LoiNhuanCongTyMe", i)
        avg_assets_ttm == RollingMean(rows, "TongCongTaiSan", i)
        avg_equity_ttm == RollingMean(rows, "VonChuSoHuu", i)
        profit_margin     == FMul(FDiv(net_income_ttm, revenue_ttm), Num(100))
        asset_turnover    == FDiv(revenue_ttm, avg_assets_ttm)
        equity_multiplier == FDiv(avg_assets_ttm, avg_equity_ttm)
        roe == FMul(FMul(FMul(FDiv(profit_margin, Num(100)), asset_turnover),
                         equity_multiplier), Num(100))
    IN  [Nam |-> rows[i].Nam, Ky |-> rows[i].Ky,
         profit_margin     |-> RoundFill(profit_margin),
         asset_turnover    |-> RoundFill(asset_turnover),
         equity_multiplier |-> RoundFill(equity_multiplier),
         roe               |-> RoundFill(roe)]

\* lines 119-129: merge, sort ascending, coerce the numeric columns present
MergedNumeric(inc, bal) ==
    LET df     == MergeInner(inc, bal)
        sorted == SortAsc(df.rows)
    IN  [cols |-> df.cols,
         rows |-> [i \in 1..Len(sorted) |->
                     [c \in DOMAIN sorted[i] |->
                         IF c \in NumericCols THEN EnsureNumeric(sorted[i][c])
                         ELSE sorted[i][c]]]]

\* the whole of compute_rolling_dupont: [raised, rows]
compute_rolling_dupont(inc, bal) ==
    LET df == MergedNumeric(inc, bal)
    IN  IF ~(NumericCols \subseteq df.cols)
        THEN [raised |-> "KeyError", rows |-> <<>>]
        ELSE [raised |-> "none",
              rows   |-> SortDesc([i \in 1..Len(df.rows) |-> DupontRow(df.rows, i)])]

\* ---- inputs ----
\* a column's series over the quarters 1..n: all empty, all text, or first + step*(t-1)
ColPatterns(firsts, steps) ==
    {[kind |-> "empty", first |-> 0, step |-> 0], [kind |-> "text", first |-> 0, step |-> 0]}
    \cup {[kind |-> "num", first |-> f, step |-> s] : f \in firsts, s \in steps}

PatternCell(p, t) ==
    IF p.kind = "empty" THEN Cell(NaN)
    ELSE IF p.kind = "text" THEN TextCell
    ELSE Cell(Num(p.first + p.step * (t - 1)))

NumPatterns(firsts, steps) == {p \in ColPatterns(firsts, steps) : p.kind # "text"}

RevPatterns == ColPatterns({0, 3}, {0}) \cup NumPatterns({1}, {1})
NiPatterns  == NumPatterns({0, 1}, {0}) \cup NumPatterns({-2}, {1})
TaPatterns  == NumPatterns({0, 4}, {0}) \cup NumPatterns({7}, {1})
EqPatterns  == NumPatterns({0, 2}, {0}) \cup NumPatterns({3}, {-1})

Restrict(f, S) == [x \in S |-> f[x]]

\* the statement tables as FundamentalAPI returns them: the group's columns,
\* newest quarter first
IncomeTable(ind, n, rp, np) ==
    [cols |-> IncomeFields(ind),
     rows |-> [k \in 1..n |->
                 LET t == n + 1 - k
                 IN  Restrict([CP |-> "HPG", Nam |-> YearOf(t), Ky |-> QuarterOf(t),
                               DoanhThuThuan |-> PatternCell(rp, t),
                               LoiNhuanCongTyMe |-> PatternCell(np, t)] ,
                              IncomeFields(ind))]]

RemoveAt(s, j) == [k \in 1..(Len(s) - 1) |-> IF k < j THEN s[k] ELSE s[k + 1]]

BalanceTable(ind, n, miss, tp, ep) ==
    LET full == [k \in 1..n |->
                   LET t == n + 1 - k
                   IN  [CP |-> "HPG", Nam |-> YearOf(t), Ky |-> QuarterOf(t),
                        TongCongTaiSan |-> PatternCell(tp, t),
                        VonChuSoHuu |-> PatternCell(ep, t)]]
    IN  [cols |-> BalanceFields(ind),
         rows |-> IF miss = 0 THEN full ELSE RemoveAt(full, miss)]

DupontIdle ==
    /\ income = [cols |-> {}, rows |-> <<>>]
    /\ balance = [cols |-> {}, rows |-> <<>>]
    /\ dupont = <<>>
    /\ dupontRaised = "none"
    /\ dpc = "idle"

DupontInit ==
    /\ \E ind \in Industries, n \in 1..MaxRows :
         \E miss \in 0..n, rp \in RevPatterns, np \in NiPatterns,
            tp \in TaPatterns, ep \in EqPatterns :
            /\ income = IncomeTable(ind, n, rp, np)
            /\ balance = BalanceTable(ind, n, miss, tp, ep)
    /\ dupont = <<>>
    /\ dupontRaised = "none"
    /\ dpc = "start"

ComputeRollingDupont ==
    /\ dpc = "start"
    /\ LET r == compute_rolling_dupont(income, balance)
       IN  /\ dupont' = r.rows
           /\ dupontRaised' = r.raised
    /\ dpc' = "done"
    /\ UNCHANGED <<income, balance>>
    /\ UNCHANGED <<parseVars, keyVars, mergeVars, appVars,
                    statsVars, cfgVars, batchVars, dashVars, techVars, priceVars, peVars>>



(***************************************************************************)
(* Response parsing.  A response text is a sequence of tokens:             *)
(*   "{" "}"   braces (inside an object "{" stands for  "key": { )         *)
(*   "qc"      a member  "quick_conclusion": "..."                         *)
(*   "txt"     prose without braces, backticks or newlines                 *)
(*   "fo"      the opening fence  ```json<newline>                         *)
(*   "fc"      the closing fence  <newline>```                             *)
(*   "f6"      six backticks in a row                                      *)
(***************************************************************************)
MaxLen == 5           \* tokens in a response text

RawTextLimit == 500   \* text[:500] / len(text) > 500

Tokens     == {"{", "}", "qc", "txt", "fo", "fc", "f6"}
JsonTokens == {"{", "}", "qc"}

\* characters of a token
TokLen(t) ==
    CASE t = "{"   -> 1
      [] t = "}"   -> 1
      [] t = "qc"  -> 30
      [] t = "txt" -> 200
      [] t = "fo"  -> 8
      [] t = "fc"  -> 4
      [] t = "f6"  -> 6

RECURSIVE CharLen(_)
CharLen(s) == IF s = <<>> THEN 0 ELSE TokLen(Head(s)) + CharLen(Tail(s))

Texts == UNION {[1..n -> Tokens] : n \in 0..MaxLen}

\* str.find / str.rfind of a brace, as 1-based token positions (0: not found)
Find(s, t)  == IF \E i \in 1..Len(s) : s[i] = t
               THEN CHOOSE i \in 1..Len(s) : s[i] = t /\ \A j \in 1..(i - 1) : s[j] # t
               ELSE 0
RFind(s, t) == IF \E i \in 1..Len(s) : s[i] = t
               THEN CHOOSE i \in 1..Len(s) : s[i] = t /\ \A j \in (i + 1)..Len(s) : s[j] # t
               ELSE 0

\* brace depth after the first k tokens
RECURSIVE Depth(_, _)
Depth(s, k) ==
    IF k = 0 THEN 0
    ELSE Depth(s, k - 1) + (IF s[k] = "{" THEN 1 ELSE IF s[k] = "}" THEN -1 ELSE 0)

\* json.loads(s) succeeds (on these tokens: s is exactly one object)
JsonLoads(s) ==
    /\ Len(s) >= 2
    /\ \A i \in 1..Len(s) : s[i] \in JsonTokens
    /\ s[1] = "{"
    /\ \A k \in 1..(Len(s) - 1) : Depth(s, k) >= 1
    /\ Depth(s, Len(s)) = 0

\* key in data, for the top-level members of a parsed object
HasTopLevel(s, t) == \E i \in 1..Len(s) : s[i] = t /\ Depth(s, i) = 1

\* ---- the analysts' parse step ----
Analysts == {"technical", "fundamental", "pe"}

\* a mutant of BraceSlice: the slice ends at the brace that closes the first one
BalancedSlice(s) ==
    LET start == Find(s, "{")
    IN  IF start = 0 \/ ~(\E j \in start..Len(s) : Depth(s, j) = Depth(s, start) - 1)
        THEN <<>>
        ELSE SubSeq(s, start,
                    CHOOSE j \in start..Len(s) :
                        /\ Depth(s, j) = Depth(s, start) - 1
                        /\ \A k \in start..(j - 1) : Depth(s, k) >= Depth(s, start))

\* response_text[start:end] with start = find('{'), end = rfind('}') + 1
BraceSlice(s) ==
    LET start == Find(s, "{")
        end   == RFind(s, "}")
    IN  IF start = 0 \/ end < start THEN <<>> ELSE SubSeq(s, start, end)

ParseError(who, s) ==
    [recommendation |-> "PARSE_ERROR", confidence_level |-> 0, data_quality |-> 0,
     content |-> [kind |-> IF who = "pe" THEN "error_raw_response" ELSE "raw", toks |-> s]]

\* the exception raised inside the try block of the parse step ("none" when
\* the slice is parsed).  The guard of TechnicalAnalyst._parse_response and
\* FundamentalAnalyst.parse_response is start == -1 or end <= start, that of
\* PEValuationAnalyst._parse_response start == -1 or end == 0; in the cases
\* only the third lets through the slice is empty and json.loads raises
ParseFailure(who, s) ==
    LET start == Find(s, "{")
        end   == RFind(s, "}")
        none  == IF who = "pe" THEN start = 0 \/ end = 0
                 ELSE start = 0 \/ end < start
    IN  IF none THEN "ValueError"
        ELSE IF ~JsonLoads(BraceSlice(s)) THEN "JSONDecodeError"
        ELSE "none"

\* a mutant of Handled: except json.JSONDecodeError
HandledJsonErrorOnly(e) == e = "JSONDecodeError"

\* except Exception as e
Handled(e) == e \in {"ValueError", "JSONDecodeError"}

\* the exception that leaves the parse step
ParseEscapes(who, s) ==
    IF ParseFailure(who, s) # "none" /\ ~Handled(ParseFailure(who, s))
    THEN ParseFailure(who, s) ELSE "none"

\* TechnicalAnalyst._parse_response, FundamentalAnalyst.parse_response,
\* PEValuationAnalyst._parse_response
parse_response(who, s) ==
    IF ParseFailure(who, s) # "none" THEN ParseError(who, s)
    ELSE [recommendation |-> "NA",
          confidence_level |-> 50,
          data_quality |-> 50,
          content |-> [kind |-> "data", toks |-> BraceSlice(s)]]

\* ---- parse_json_from_markdown ----
Pages == {"app", "price", "fundamental"}

EndsInBackticks(t)   == t \in {"fc", "f6"}
StartsWithBackticks(t) == t \in {"fo", "f6"}

\* token positions at which the pattern's opening part can match:
\* app.py  ```(?:json)?\s*\n   price.py  ```json\s*\n
\* "fo" is such an opener; in app.py so are the backticks that end "fc" or
\* "f6" when a newline ("fc") follows, and then the group starts inside that "fc"
CleanOpeners(s) == {i \in 1..Len(s) : s[i] = "fo"}
DirtyOpeners(pg, s) ==
    IF pg = "app"
    THEN {i \in 1..(Len(s) - 1) : EndsInBackticks(s[i]) /\ s[i + 1] = "fc"}
    ELSE {}

\* the closing part \n``` matches at an "fc" token (the group ends before it:
\* a clean end) or where "fo" is followed by backticks (the group then ends
\* with the text ```json)
CleanCloser(s, j) == s[j] = "fc"
DirtyCloser(s, j) == j < Len(s) /\ s[j] = "fo" /\ StartsWithBackticks(s[j + 1])
Closers(s, from)  == {j \in from..Len(s) : CleanCloser(s, j) \/ DirtyCloser(s, j)}

Min(S) == CHOOSE x \in S : \A y \in S : x <= y

\* re.search(json_pattern, text, re.DOTALL) of app.py and price.py:
\* [found, clean, group]; the leftmost opener that has a closer, and the
\* nearest closer (.*? is lazy)
FenceSearch(pg, s) ==
    LET cand == {i \in CleanOpeners(s) : Closers(s, i + 1) # {}}
                \cup {i \in DirtyOpeners(pg, s) : Closers(s, i + 2) # {}}
    IN  IF cand = {} THEN [found |-> FALSE, clean |-> FALSE, group |-> <<>>]
        ELSE LET i == Min(cand)
                 j == IF s[i] = "fo" THEN Min(Closers(s, i + 1)) ELSE Min(Closers(s, i + 2))
             IN  [found |-> TRUE,
                  clean |-> s[i] = "fo" /\ CleanCloser(s, j),
                  group |-> IF s[i] = "fo" /\ CleanCloser(s, j)
                            THEN SubSeq(s, i + 1, j - 1) ELSE <<>>]

\* text.replace('```json', '').replace('```', '').strip(): what is left of the
\* fence tokens is white space
StripFences(s) == SelectSeq(s, LAMBDA t : t \notin {"fo", "fc", "f6"})

\* fundamental.py: re.search(r'``````', text): six backticks in a row
SixBackticks(s) ==
    \/ \E i \in 1..Len(s) : s[i] = "f6"
    \/ \E i \in 1..(Len(s) - 1) : EndsInBackticks(s[i]) /\ StartsWithBackticks(s[i + 1])

\* text[:limit] as [whole tokens kept, characters kept of the next token]
RECURSIVE TakeChars(_, _)
TakeChars(s, limit) ==
    IF s = <<>> \/ limit = 0 THEN [toks |-> <<>>, chars |-> 0]
    ELSE IF TokLen(Head(s)) > limit THEN [toks |-> <<>>, chars |-> limit]
    ELSE LET rest == TakeChars(Tail(s), limit - TokLen(Head(s)))
         IN  [toks |-> <<Head(s)>> \o rest.toks, chars |-> rest.chars]

Nothing == [error |-> FALSE, raw |-> [toks |-> <<>>, chars |-> 0], dots |-> FALSE]

\* st.error(...); st.write("Raw text:", text[:500] + "..." if len(text) > 500 else text)
ShowParseError(s) ==
    IF CharLen(s) > RawTextLimit
    THEN [error |-> TRUE, raw |-> TakeChars(s, RawTextLimit), dots |-> TRUE]
    ELSE [error |-> TRUE, raw |-> [toks |-> s, chars |-> 0], dots |-> FALSE]

Parsed(d)  == [raised |-> "none", ok |-> TRUE, data |-> d, shown |-> Nothing]
Failed(s)  == [raised |-> "none", ok |-> FALSE, data |-> <<>>, shown |-> ShowParseError(s)]
Escaped(e) == [raised |-> e, ok |-> FALSE, data |-> <<>>, shown |-> Nothing]

\* parse_json_from_markdown of app.py, price.py and fundamental.py
parse_json_from_markdown(pg, s) ==
    IF pg = "fundamental"
    THEN IF SixBackticks(s) THEN Escaped("IndexError")     \* match.group(1): no such group
         ELSE IF JsonLoads(s) THEN Parsed(s) ELSE Failed(s)
    ELSE LET m == FenceSearch(pg, s)
         IN  IF m.found
             THEN IF m.clean /\ JsonLoads(m.group) THEN Parsed(m.group) ELSE Failed(s)
             ELSE IF JsonLoads(StripFences(s)) THEN Parsed(StripFences(s)) ELSE Failed(s)

\* extract_and_parse_ai_json: a dict with 'raw' is parsed again from the raw
\* text; a parsed dict is returned as it is when it has one of the known keys
\* (of which the tokens have "qc"); anything else gives {}
extract_and_parse_ai_json(pg, resp) ==
    IF resp.content.kind = "raw" THEN parse_json_from_markdown(pg, resp.content.toks)
    ELSE IF resp.content.kind = "data" /\ HasTopLevel(resp.content.toks, "qc")
         THEN Parsed(resp.content.toks)
    ELSE [raised |-> "none", ok |-> FALSE, data |-> <<>>, shown |-> Nothing]

NoResponse == [recommendation |-> "", confidence_level |-> 0, data_quality |-> 0,
               content |-> [kind |-> "none", toks |-> <<>>]]
NoJson     == [ok |-> FALSE, data |-> <<>>]

ParseIdle ==
    /\ text = <<>>
    /\ analyst = "none"
    /\ page = "none"
    /\ response = NoResponse
    /\ ai_json = NoJson
    /\ shown = Nothing
    /\ parseRaised = "none"
    /\ ppc = "idle"

\* the scripts and the analysts whose responses they hand to
\* extract_and_parse_ai_json
Uses == {<<"app", "technical">>, <<"app", "fundamental">>,
         <<"price", "technical">>, <<"fundamental", "fundamental">>}

ParseInit ==
    /\ text \in Texts
    /\ analyst \in Analysts
    /\ page \in Pages \cup {"none"}
    /\ \/ <<page, analyst>> \in Uses
       \/ page = "none" /\ analyst = "pe"
    /\ response = NoResponse
    /\ ai_json = NoJson
    /\ shown = Nothing
    /\ parseRaised = "none"
    /\ ppc = "start"

\* the last step of analyze(): return self._parse_response(ai_text)
ParseResponse ==
    /\ ppc = "start"
    /\ parseRaised' = ParseEscapes(analyst, text)
    /\ response' = IF ParseEscapes(analyst, text) = "none"
                   THEN parse_response(analyst, text) ELSE response
    /\ ppc' = "parsed"
    /\ UNCHANGED <<text, analyst, page, ai_json, shown>>
    /\ UNCHANGED <<dupontVars, keyVars, mergeVars, appVars,
                    statsVars, cfgVars, batchVars, dashVars, techVars, priceVars, peVars>>

\* ai_content = extract_and_parse_ai_json(ai_response)
ExtractAndParse ==
    /\ ppc = "parsed"
    /\ page # "none"
    /\ LET r == extract_and_parse_ai_json(page, response)
       IN  /\ ai_json' = [ok |-> r.ok, data |-> r.data]
           /\ shown' = r.shown
           /\ parseRaised' = r.raised
    /\ ppc' = "done"
    /\ UNCHANGED <<text, analyst, page, response>>
    /\ UNCHANGED <<dupontVars, keyVars, mergeVars, appVars,
                    statsVars, cfgVars, batchVars, dashVars, techVars, priceVars, peVars>>

ParseNext == ParseResponse \/ ExtractAndParse

(***************************************************************************)
(* get_api_key (price.py, fundamental.py, pe.py).  The three sources hold  *)
(* the entry GEMINI_API_KEY or not; a value "" is an empty key.            *)
(***************************************************************************)
None == "None"      \* Python's None

Scripts == {"price", "fundamental", "pe"}

SecretStates == {[has |-> FALSE, val |-> ""], [has |-> TRUE, val |-> ""],
                 [has |-> TRUE, val |-> "key-secrets"]}
EnvStates    == {[has |-> FALSE, val |-> ""], [has |-> TRUE, val |-> ""],
                 [has |-> TRUE, val |-> "key-env"]}
\* config.json: no file, not JSON, or a flat mapping with or without the entry
ConfigStates == {[state |-> "missing", has |-> FALSE, val |-> ""],
                 [state |-> "invalid", has |-> FALSE, val |-> ""],
                 [state |-> "json", has |-> FALSE, val |-> ""],
                 [state |-> "json", has |-> TRUE, val |-> ""],
                 [state |-> "json", has |-> TRUE, val |-> "key-config"]}

\* os.getenv('GEMINI_API_KEY') / os.getenv("GEMINI_API_KEY", "")
GetEnv(env, default) == IF env.has THEN env.val ELSE default

\* the config.json branch: open, json.load, .get
ConfigKey(sc, cfg) ==
    IF cfg.state # "json" THEN (IF sc = "pe" THEN "" ELSE None)
    ELSE IF cfg.has THEN cfg.val
    ELSE (IF sc = "pe" THEN "" ELSE None)

\* a mutant of get_api_key: the sources in the order config.json, env, secrets
get_api_key_config_first(sc, sec, env, cfg) ==
    IF cfg.state = "json" /\ cfg.has /\ cfg.val # "" THEN cfg.val
    ELSE IF GetEnv(env, "") # "" THEN GetEnv(env, "")
    ELSE IF sec.has THEN sec.val
    ELSE (IF sc = "pe" THEN "" ELSE None)

\* get_api_key: st.secrets, then the environment, then config.json
get_api_key(sc, sec, env, cfg) ==
    IF sec.has THEN sec.val
    ELSE IF GetEnv(env, IF sc = "pe" THEN "" ELSE None) \notin {"", None}
         THEN GetEnv(env, "")
    ELSE ConfigKey(sc, cfg)

KeyIdle ==
    /\ secrets = [has |-> FALSE, val |-> ""]
    /\ environ = [has |-> FALSE, val |-> ""]
    /\ config = [state |-> "missing", has |-> FALSE, val |-> ""]
    /\ script = "none"
    /\ api_key_result = None
    /\ kpc = "idle"

KeyInit ==
    /\ secrets \in SecretStates
    /\ environ \in EnvStates
    /\ config \in ConfigStates
    /\ script \in Scripts
    /\ api_key_result = None
    /\ kpc = "start"

\* default_key = get_api_key()
GetApiKey ==
    /\ kpc = "start"
    /\ api_key_result' = get_api_key(script, secrets, environ, config)
    /\ kpc' = "done"
    /\ UNCHANGED <<secrets, environ, config, script>>
    /\ UNCHANGED <<dupontVars, parseVars, mergeVars, appVars,
                    statsVars, cfgVars, batchVars, dashVars, techVars, priceVars, peVars>>

KeyNext == GetApiKey

(***************************************************************************)
(* DataProcessor.merge_price_ratio (src/data/pe_api.py) on the frames that *)
(* PEAPI.get_price_history and PEAPI.get_ratio_data hand to it.            *)
(***************************************************************************)
MaxQuarters    == 6   \* quarters spanned by the ratio table drawn by Init
MaxCalls       == 2   \* calls of merge_price_ratio on the same frames
DaysPerQuarter == 2   \* trading days of a quarter in the price history
EpsWindow      == 4   \* rolling(4)
PriceScale     == 1000 \* df["close"] * 1000

QuarterIndex(r) == (r.Nam - 2020) * 4 + r.Ky
SameQuarter(a, b) == a.Nam = b.Nam /\ a.Ky = b.Ky

RECURSIVE Pow2(_)
Pow2(k) == IF k = 0 THEN 1 ELSE 2 * Pow2(k - 1)

\* a timestamp of the price history and its '%Y-%m-%d' text
Timestamp(d) == [kind |-> "datetime", day |-> d]
Strftime(t)  == [kind |-> "str", day |-> t.day]

\* add_year_quarter: Năm and Kỳ of a trading day
DayQuarter(d) == ((d - 1) \div DaysPerQuarter) + 1
PriceRow(d) ==
    [time |-> Timestamp(d), close |-> Num(10 + d),
     Nam |-> YearOf(DayQuarter(d)), Ky |-> QuarterOf(DayQuarter(d))]

\* get_price_history: the days of the quarters first..last, sorted by time
\* descending
PriceHistory(first, last) ==
    LET lo == (first - 1) * DaysPerQuarter + 1
        hi == last * DaysPerQuarter
    IN  [k \in 1..(hi - lo + 1) |-> PriceRow(hi - k + 1)]

\* the EPS the provider reports for quarter t: distinct powers of two, so
\* that a sum tells which quarters went into it
ReportedEps(kind, t, nanAt) ==
    IF t = nanAt THEN NaN
    ELSE IF kind = "zero" THEN Num(0) ELSE Num(Pow2(t - 1))

RatioRow(kind, t, nanAt) ==
    [Nam |-> YearOf(t), Ky |-> QuarterOf(t), EPS |-> ReportedEps(kind, t, nanAt)]

\* get_ratio_data: quarters 1..n without the quarter missAt, the quarter
\* dupAt reported twice, sorted by (Năm, Kỳ) descending
RECURSIVE RatioRowsAsc(_, _, _, _, _)
RatioRowsAsc(kind, n, missAt, nanAt, dupAt) ==
    IF n = 0 THEN <<>>
    ELSE RatioRowsAsc(kind, n - 1, missAt, nanAt, dupAt)
         \o (IF n = missAt THEN <<>>
             ELSE IF n = dupAt
                  THEN <<RatioRow(kind, n, nanAt), RatioRow(kind, n, nanAt)>>
                  ELSE <<RatioRow(kind, n, nanAt)>>)

RatioData(kind, n, missAt, nanAt, dupAt) ==
    SortDesc(RatioRowsAsc(kind, n, missAt, nanAt, dupAt))

\* Series.rolling(4).sum() at row i: min_periods is the window, so a window
\* that is short or holds a NaN gives NaN
RollingEps(rows, i) ==
    IF i < EpsWindow THEN NaN
    ELSE LET win == [k \in 1..EpsWindow |-> rows[i - EpsWindow + k].EPS]
         IN  IF \E k \in 1..EpsWindow : IsNaN(win[k]) THEN NaN ELSE SumF(win)

\* lines 19-21: the copy of the three columns, sorted ascending, plus EPS_nam
EpsTable(ratio) ==
    LET eps == SortAsc(ratio)
    IN  [i \in 1..Len(eps) |->
            [Nam |-> eps[i].Nam, Ky |-> eps[i].Ky, EPS |-> eps[i].EPS,
             EPS_nam |-> RollingEps(eps, i)]]

\* the rows pd.merge pairs with the left row l: one per right row of its
\* (Năm, Kỳ)
RECURSIVE MergeQuarterInnerRow(_, _)
MergeQuarterInnerRow(l, rs) ==
    IF rs = <<>> THEN <<>>
    ELSE (IF SameQuarter(l, Head(rs))
          THEN <<l @@ [EPS |-> Head(rs).EPS, EPS_nam |-> Head(rs).EPS_nam]>>
          ELSE <<>>)
         \o MergeQuarterInnerRow(l, Tail(rs))

\* pd.merge(price_df, eps, on=["Năm","Kỳ"], how="left") for one left row: one
\* row per matching right row, one NaN-padded row when there is none
MergeLeftRow(l, rs) ==
    IF \E k \in 1..Len(rs) : SameQuarter(l, rs[k])
    THEN MergeQuarterInnerRow(l, rs)
    ELSE <<l @@ [EPS |-> NaN, EPS_nam |-> NaN]>>

RECURSIVE MergeLeft(_, _)
MergeLeft(ls, rs) ==
    IF ls = <<>> THEN <<>>
    ELSE MergeLeftRow(Head(ls), rs) \o MergeLeft(Tail(ls), rs)

\* the first non-NaN value of column c in the rows i, i+1, ...
RECURSIVE NextValid(_, _, _)
NextValid(rows, c, i) ==
    IF i > Len(rows) THEN NaN
    ELSE IF ~IsNaN(rows[i][c]) THEN rows[i][c]
    ELSE NextValid(rows, c, i + 1)

\* df.fillna(method="bfill"): the float columns take the next valid value
\* below; time, Năm and Kỳ hold no missing value
Bfill(rows) ==
    [i \in 1..Len(rows) |->
        [rows[i] EXCEPT !.close = NextValid(rows, "close", i),
                        !.EPS = NextValid(rows, "EPS", i),
                        !.EPS_nam = NextValid(rows, "EPS_nam", i)]]

\* a mutant of WithPE: the close is not scaled by 1000
WithPEUnscaled(r) ==
    [time |-> Strftime(r.time), close |-> r.close, Nam |-> r.Nam, Ky |-> r.Ky,
     EPS |-> r.EPS, EPS_nam |-> r.EPS_nam,
     PEtrailing |-> FDiv(r.close, r.EPS_nam)]

\* lines 28-29: the PEtrailing column and the time column as text
WithPE(r) ==
    [time |-> Strftime(r.time), close |-> r.close, Nam |-> r.Nam, Ky |-> r.Ky,
     EPS |-> r.EPS, EPS_nam |-> r.EPS_nam,
     PEtrailing |-> FDiv(FMul(r.close, Num(PriceScale)), r.EPS_nam)]

merge_price_ratio(price, ratio) ==
    LET df == Bfill(MergeLeft(price, EpsTable(ratio)))
    IN  [i \in 1..Len(df) |-> WithPE(df[i])]

MergeIdle ==
    /\ price_df = <<>>
    /\ ratio_df = <<>>
    /\ outs = <<>>
    /\ mpc = "idle"

MergeInit ==
    /\ \E n \in 1..MaxQuarters :
         /\ \E kind \in {"pow2", "zero"}, missAt \in 0..n, nanAt \in 0..n,
               dupAt \in 0..n :
              ratio_df = RatioData(kind, n, missAt, nanAt, dupAt)
         /\ \E first \in {1, 2}, last \in {n, n + 1} :
              price_df = PriceHistory(first, last)
    /\ outs = <<>>
    /\ mpc = "ready"

\* a mutant of MergePriceRatio: the ratio frame is sorted in place
MergePriceRatioInPlace ==
    /\ mpc = "ready"
    /\ Len(outs) < MaxCalls
    /\ outs' = Append(outs, merge_price_ratio(price_df, ratio_df))
    /\ ratio_df' = SortAsc(ratio_df)
    /\ UNCHANGED <<price_df, mpc>>
    /\ UNCHANGED <<dupontVars, parseVars, keyVars, appVars,
                    statsVars, cfgVars, batchVars, dashVars, techVars, priceVars, peVars>>

\* one call DataProcessor.merge_price_ratio(price_df, ratio_df)
MergePriceRatio ==
    /\ mpc = "ready"
    /\ Len(outs) < MaxCalls
    /\ outs' = Append(outs, merge_price_ratio(price_df, ratio_df))
    /\ UNCHANGED <<price_df, ratio_df, mpc>>
    /\ UNCHANGED <<dupontVars, parseVars, keyVars, appVars,
                    statsVars, cfgVars, batchVars, dashVars, techVars, priceVars, peVars>>

MergeNext == MergePriceRatio

(***************************************************************************)
(* app.py main: the button click, the three analyses in sequence, the      *)
(* tabs.  The data provider and the model API answer or raise, chosen by   *)
(* the environment.                                                        *)
(***************************************************************************)
Analyses == <<"technical", "fundamental", "pe">>
AnalystSet == {Analyses[k] : k \in 1..Len(Analyses)}

\* config.json of app.py maps access codes to API keys
AccessCodes == {"", "GK-2024", "guess"}
Symbols     == {"", "HPG", "VCB"}
CfgGet(c)   == IF c = "GK-2024" THEN "gemini-key" ELSE ""

At(stage, at) == [stage |-> stage, at |-> at]

\* where main goes after the analysis of stage
AfterStage(stage) ==
    IF stage = "technical" THEN At("fundamental", "load")
    ELSE IF stage = "fundamental" THEN At("pe", "load")
    ELSE At("render", "tabs")

\* the handler an exception of stage reaches: only the P/E block has its own
\* try/except, every other exception reaches the except of the whole run
Handle(stage) ==
    IF stage = "pe"
    THEN [banner |-> "pe_warning", next |-> At("render", "tabs")]
    ELSE [banner |-> "unexpected_error", next |-> At("done", "end")]

AppIdle ==
    /\ apc = At("off", "off")
    /\ code = ""
    /\ symbol = ""
    /\ api_key = ""
    /\ in_flight = {}
    /\ requests = [a \in AnalystSet |-> 0]
    /\ outcome = [a \in AnalystSet |-> "none"]
    /\ banners = {}
    /\ tabs = FALSE

\* the page before the button is pressed
AppInit ==
    /\ apc = At("sidebar", "wait")
    /\ code = ""
    /\ symbol = ""
    /\ api_key = ""
    /\ in_flight = {}
    /\ requests = [a \in AnalystSet |-> 0]
    /\ outcome = [a \in AnalystSet |-> "none"]
    /\ banners = {"info"}
    /\ tabs = FALSE

\* the button is pressed with code c and ticker s in the sidebar
ClickRun(c, s) ==
    /\ apc = At("sidebar", "wait")
    /\ code' = c
    /\ symbol' = s
    /\ api_key' = CfgGet(c)
    /\ IF c = "" THEN /\ banners' = {"code_error"}
                      /\ apc' = At("done", "end")
       ELSE IF s = "" THEN /\ banners' = {"symbol_error"}
                           /\ apc' = At("done", "end")
       ELSE /\ banners' = {}
            /\ apc' = At("technical", "load")
    /\ UNCHANGED <<in_flight, requests, outcome, tabs>>
    /\ UNCHANGED <<dupontVars, parseVars, keyVars, mergeVars,
                    statsVars, cfgVars, batchVars, dashVars, techVars, priceVars, peVars>>

\* load_data_from_api / load_fundamental_data: the loader catches what the
\* provider raises, shows an error and returns {}
LoadData(res) ==
    /\ apc.at = "load"
    /\ apc.stage \in {"technical", "fundamental"}
    /\ res = "empty" => apc.stage = "technical"
    /\ IF res = "data"
       THEN /\ apc' = At(apc.stage, "analyze")
            /\ UNCHANGED <<banners, outcome>>
       ELSE /\ apc' = AfterStage(apc.stage)
            /\ outcome' = [outcome EXCEPT ![apc.stage] = "skipped"]
            /\ banners' = IF res = "raise" THEN banners \cup {"load_error"}
                          ELSE banners
    /\ UNCHANGED <<code, symbol, api_key, in_flight, requests, tabs>>
    /\ UNCHANGED <<dupontVars, parseVars, keyVars, mergeVars,
                    statsVars, cfgVars, batchVars, dashVars, techVars, priceVars, peVars>>

\* PEAPI(symbol).compute_pe_trailing() and the distribution statistics
LoadPE(res) ==
    /\ apc = At("pe", "load")
    /\ IF res = "data"
       THEN /\ apc' = At("pe", "analyze")
            /\ UNCHANGED <<banners, outcome>>
       ELSE /\ apc' = Handle("pe").next
            /\ banners' = banners \cup {Handle("pe").banner}
            /\ outcome' = [outcome EXCEPT !["pe"] = "raised"]
    /\ UNCHANGED <<code, symbol, api_key, in_flight, requests, tabs>>
    /\ UNCHANGED <<dupontVars, parseVars, keyVars, mergeVars,
                    statsVars, cfgVars, batchVars, dashVars, techVars, priceVars, peVars>>

\* analyze up to its await: the data is compacted (FundamentalAnalyst and
\* PEValuationAnalyst ask the provider again) and generate_content is handed
\* to the executor
Analyze(res) ==
    /\ apc.at = "analyze"
    /\ res = "raise" => apc.stage # "technical"
    /\ IF res = "data"
       THEN /\ requests' = [requests EXCEPT ![apc.stage] = @ + 1]
            /\ in_flight' = in_flight \cup {apc.stage}
            /\ apc' = At(apc.stage, "await")
            /\ UNCHANGED <<banners, outcome>>
       ELSE /\ apc' = Handle(apc.stage).next
            /\ banners' = banners \cup {Handle(apc.stage).banner}
            /\ outcome' = [outcome EXCEPT ![apc.stage] = "raised"]
            /\ UNCHANGED <<requests, in_flight>>
    /\ UNCHANGED <<code, symbol, api_key, tabs>>
    /\ UNCHANGED <<dupontVars, parseVars, keyVars, mergeVars,
                    statsVars, cfgVars, batchVars, dashVars, techVars, priceVars, peVars>>

\* a mutant of ModelResponds: a failed request is issued again
ModelRespondsRetry(res) ==
    /\ apc.at = "await"
    /\ IF res = "text"
       THEN /\ apc' = AfterStage(apc.stage)
            /\ in_flight' = in_flight \ {apc.stage}
            /\ outcome' = [outcome EXCEPT ![apc.stage] = "returned"]
            /\ UNCHANGED <<banners, requests>>
       ELSE /\ requests[apc.stage] < 2
            /\ requests' = [requests EXCEPT ![apc.stage] = @ + 1]
            /\ UNCHANGED <<apc, in_flight, outcome, banners>>
    /\ UNCHANGED <<code, symbol, api_key, tabs>>
    /\ UNCHANGED <<dupontVars, parseVars, keyVars, mergeVars,
                    statsVars, cfgVars, batchVars, dashVars, techVars, priceVars, peVars>>

\* the request completes and run_until_complete returns: the text is parsed
\* and main goes on, or the call raised and the error of the API travels up
\* as RuntimeError / Exception to the handler of the stage
ModelResponds(res) ==
    /\ apc.at = "await"
    /\ in_flight' = in_flight \ {apc.stage}
    /\ IF res = "text"
       THEN /\ apc' = AfterStage(apc.stage)
            /\ outcome' = [outcome EXCEPT ![apc.stage] = "returned"]
            /\ UNCHANGED banners
       ELSE /\ apc' = Handle(apc.stage).next
            /\ banners' = banners \cup {Handle(apc.stage).banner}
            /\ outcome' = [outcome EXCEPT ![apc.stage] = "call_failed"]
    /\ UNCHANGED <<code, symbol, api_key, requests, tabs>>
    /\ UNCHANGED <<dupontVars, parseVars, keyVars, mergeVars,
                    statsVars, cfgVars, batchVars, dashVars, techVars, priceVars, peVars>>

\* st.tabs and the three with-blocks
RenderTabs ==
    /\ apc = At("render", "tabs")
    /\ tabs' = TRUE
    /\ apc' = At("done", "end")
    /\ UNCHANGED <<code, symbol, api_key, in_flight, requests, outcome, banners>>
    /\ UNCHANGED <<dupontVars, parseVars, keyVars, mergeVars,
                    statsVars, cfgVars, batchVars, dashVars, techVars, priceVars, peVars>>

\* the next interaction with the page runs the script again from the top
Rerun ==
    /\ apc = At("done", "end")
    /\ apc' = At("sidebar", "wait")
    /\ banners' = {"info"}
    /\ tabs' = FALSE
    /\ in_flight' = {}
    /\ requests' = [a \in AnalystSet |-> 0]
    /\ outcome' = [a \in AnalystSet |-> "none"]
    /\ UNCHANGED <<code, symbol, api_key>>
    /\ UNCHANGED <<dupontVars, parseVars, keyVars, mergeVars,
                    statsVars, cfgVars, batchVars, dashVars, techVars, priceVars, peVars>>

AppNext ==
    \/ \E c \in AccessCodes, s \in Symbols : ClickRun(c, s)
    \/ \E res \in {"data", "empty", "raise"} : LoadData(res)
    \/ \E res \in {"data", "raise"} : LoadPE(res)
    \/ \E res \in {"data", "raise"} : Analyze(res)
    \/ \E res \in {"text", "raise"} : ModelResponds(res)
    \/ RenderTabs
    \/ Rerun

(***************************************************************************)
(* DataProcessor.calculate_pe_distribution_stats (src/data/pe_api.py).     *)
(* The valid P/E values are kept in tenths (integers); every statistic is  *)
(* an exact rational, rounded where the code rounds.                       *)
(***************************************************************************)
MaxObs   == 5     \* rows of the short P/E tables drawn by Init
MaWindow == 200   \* len(pe_values) >= 200, rolling(window=200), iloc[199]
RoundDigits == 1  \* .round(1) / round(x, 1)
Percentiles == {25, 30, 40, 50, 60, 70, 75, 80, 90, 95, 99}

\* the P/E cells a table can hold: missing, infinite (EPS_nam = 0), numbers
PeCells == {NaN, PosInf, Num(10), <<101, 10>>, Num(12)}

Tenths(x) == x[1] * (10 \div x[2])
Round1(x) == RoundTo(x, Pow10(RoundDigits))

\* df[pe_column].replace([inf, -inf], nan).dropna(), in tenths
Clean(rows) ==
    LET kept == SelectSeq(rows, IsFinite)
    IN  [i \in 1..Len(kept) |-> Tenths(kept[i])]

\* xs[lo] + ... + xs[hi], halving the range
RECURSIVE SumRange(_, _, _)
SumRange(xs, lo, hi) ==
    IF lo > hi THEN 0
    ELSE IF lo = hi THEN xs[lo]
    ELSE LET mid == (lo + hi) \div 2
         IN  SumRange(xs, lo, mid) + SumRange(xs, mid + 1, hi)

SumI(xs) == SumRange(xs, 1, Len(xs))

CountLess(xs, v) == Cardinality({i \in 1..Len(xs) : xs[i] < v})
CountLeq(xs, v)  == Cardinality({i \in 1..Len(xs) : xs[i] <= v})

\* the k-th smallest value of xs (k in 1..Len(xs))
OrderStat(xs, k) ==
    CHOOSE v \in {xs[i] : i \in 1..Len(xs)} :
        CountLeq(xs, v) >= k /\ CountLess(xs, v) < k

\* Series.mean()
Mean(xs) == Norm(SumI(xs), 10 * Len(xs))

\* np.percentile(xs, p): linear interpolation between the order statistics
\* around position (n - 1) * p / 100
Percentile(xs, p) ==
    LET h  == (Len(xs) - 1) * p
        lo == h \div 100
        r  == h % 100
        a  == OrderStat(xs, lo + 1)
        b  == IF r = 0 THEN a ELSE OrderStat(xs, lo + 2)
    IN  Norm(100 * a + r * (b - a), 1000)

\* n(n-1) times the sample variance, in squared tenths: n * sum(y^2) - sum(y)^2
\* on the values shifted by the first one
VarNumerator(xs) ==
    LET ys == [i \in 1..Len(xs) |-> xs[i] - xs[1]]
        sq == [i \in 1..Len(xs) |-> ys[i] * ys[i]]
    IN  Len(xs) * SumI(sq) - SumI(ys) * SumI(ys)

\* Series.std().round(1), in tenths: the integer k nearest to
\* sqrt(VarNumerator / (n(n-1))), ties to even; NaN for a single value
StdRounded(xs) ==
    LET n == Len(xs)
        m == n * (n - 1)
        v == 4 * VarNumerator(xs)
        k == CHOOSE j \in 0..(OrderStat(xs, n) - OrderStat(xs, 1) + 1) :
                 /\ (j = 0 \/ (2 * j - 1) * (2 * j - 1) * m <= v)
                 /\ v <= (2 * j + 1) * (2 * j + 1) * m
                 /\ (v = (2 * j + 1) * (2 * j + 1) * m) => j % 2 = 0
                 /\ (j > 0 /\ v = (2 * j - 1) * (2 * j - 1) * m) => j % 2 = 0
    IN  IF n < 2 THEN NaN ELSE Norm(k, 10)

\* a mutant of PercentileOfScore: the share of the values above the score
PercentileOfScoreAbove(xs, score) ==
    Norm((Len(xs) - CountLeq(xs, score)) * 100, Len(xs))

\* a mutant of PercentileOfScore: kind="weak", the share at or below
PercentileOfScoreWeak(xs, score) ==
    Norm(CountLeq(xs, score) * 100, Len(xs))

\* scipy.stats.percentileofscore(xs, score) with its default kind="rank"
PercentileOfScore(xs, score) ==
    LET left  == CountLess(xs, score)
        right == CountLeq(xs, score)
    IN  Norm((left + right + (IF right > left THEN 1 ELSE 0)) * 50, Len(xs))

\* lines 114-118: the z-score from the rounded mean and the rounded std
ZScore(current, mean1, std1) ==
    IF IsNaN(std1) THEN NaN
    ELSE IF std1[1] = 0 THEN NaN
    ELSE Round1(FDiv(FAdd(Norm(current, 10), FNeg(mean1)), std1))

\* a mutant of Ma200: the mean of the whole series
Ma200All(xs) == Mean(xs)

\* pe_values.rolling(window=200).mean().iloc[199]
Ma200(xs) == Mean(SubSeq(xs, 1, MaWindow))

\* a mutant of ErrorDict: the error comes with a count
ErrorDictWithCount(msg) == [keys |-> {"error", "count"}, error |-> msg, count |-> 0]

\* return {"error": ...}
ErrorDict(msg) == [keys |-> {"error"}, error |-> msg]

BaseKeys ==
    {"current_pe", "count", "mean", "median", "std", "percentiles",
     "current_percentile", "current_z_score"}

calculate_pe_distribution_stats(df) ==
    IF df.rows = <<>> THEN ErrorDict("empty")
    ELSE IF ~df.has_column THEN ErrorDict("no column")
    ELSE LET xs == Clean(df.rows) IN
      IF Len(xs) = 0 THEN ErrorDict("no valid data")
      ELSE
        LET current == xs[1]
            mean1   == Round1(Mean(xs))
            std1    == StdRounded(xs)
            long    == Len(xs) >= MaWindow
            ma      == IF long THEN Ma200(xs) ELSE NaN
        IN  [keys |-> BaseKeys \cup
                      (IF long THEN {"ma200", "deviation_from_ma200"} ELSE {}),
             current_pe |-> Round1(Norm(current, 10)),
             count |-> Len(xs),
             mean |-> mean1,
             median |-> Round1(Percentile(xs, 50)),
             std |-> std1,
             percentiles |-> [p \in Percentiles |-> Round1(Percentile(xs, p))],
             current_percentile |-> Round1(PercentileOfScore(xs, current)),
             current_z_score |-> ZScore(current, mean1, std1),
             ma200 |-> Round1(ma),
             deviation_from_ma200 |->
                 Round1(FMul(FDiv(FAdd(Norm(current, 10), FNeg(ma)), ma), Num(100)))]

\* a long P/E history: n rows that alternate between 10.0 and 10.5 after
\* the first cell, older rows beyond the window at 40.0, one NaN on demand
LongRows(n, first, nanAt) ==
    [i \in 1..n |->
        IF i = 1 THEN first
        ELSE IF i = nanAt THEN NaN
        ELSE IF i > MaWindow THEN Num(40)
        ELSE IF i % 2 = 0 THEN Num(10) ELSE <<21, 2>>]

ShortTables ==
    {[has_column |-> c, rows |-> r] :
        c \in BOOLEAN, r \in UNION {[1..n -> PeCells] : n \in 0..MaxObs}}

LongTables ==
    {[has_column |-> TRUE, rows |-> LongRows(n, f, k)] :
        n \in (MaWindow - 1)..(MaWindow + 2), f \in {Num(10), Num(12), PosInf},
        k \in {0, 2}}

StatsIdle ==
    /\ pe_table = [has_column |-> FALSE, rows |-> <<>>]
    /\ stats_dict = [keys |-> {}]
    /\ spc = "idle"

StatsInit ==
    /\ pe_table \in ShortTables \cup LongTables
    /\ stats_dict = [keys |-> {}]
    /\ spc = "start"

\* stats = DataProcessor.calculate_pe_distribution_stats(df)
CalculateStats ==
    /\ spc = "start"
    /\ stats_dict' = calculate_pe_distribution_stats(pe_table)
    /\ spc' = "done"
    /\ UNCHANGED pe_table
    /\ UNCHANGED <<dupontVars, parseVars, keyVars, mergeVars,
                    appVars, cfgVars, batchVars, dashVars, techVars, priceVars, peVars>>

StatsNext == CalculateStats

(***************************************************************************)
(* config.json as the dashboard reads it (helpers.py, config.py,           *)
(* analysis_pipeline.py, main_dashboard.py).  A file is missing, is not    *)
(* JSON, or is an object with the entries gemini, api and database_url;    *)
(* an absent entry is None.                                                *)
(***************************************************************************)
Placeholder == "YOUR_GEMINI_API_KEY_HERE"

KeyValues == {"", Placeholder, "AIzaA", "AIzaB"}

\* the value of the "api" entry: absent, not an object ("text"), an object
\* with a field APIConfig does not have ("unknown"), or an object with
\* api_keys, whose gemini entry is absent or a string
ApiEntries ==
    {[kind |-> k, gemini |-> None] : k \in {None, "text", "unknown"}}
        \cup {[kind |-> "api_keys", gemini |-> k] :
                k \in {None, "", "AIzaA", "AIzaB"}}

NoEntries ==
    [gemini |-> None, api |-> [kind |-> None, gemini |-> None],
     database_url |-> None]

ConfigFiles ==
    {[file |-> f, entries |-> NoEntries] : f \in {"missing", "invalid"}}
        \cup [file : {"object"},
              entries : [gemini : KeyValues \cup {None},
                         api : ApiEntries,
                         database_url : {None, "sqlite:///golden_key.db"}]]

\* display_api_key_warning: config.get('gemini', '') is a real key
display_api_key_warning(f) ==
    /\ f.file = "object"
    /\ f.entries.gemini \notin {None, "", Placeholder}

\* ConfigManager._load_config, the api_keys.get('gemini') of the AppConfig
\* it returns: the file's entries are merged over the defaults ({"api":
\* {"api_keys": {}}}); a file that cannot be read gives the defaults, and so
\* does an api entry that APIConfig(**...) rejects
load_config_api_keys(f) ==
    IF f.file = "object" /\ f.entries.api.kind = "api_keys"
    THEN f.entries.api.gemini
    ELSE None

\* load_config: the module keeps the first configuration it loaded
load_config(manager, f) ==
    IF manager.loaded THEN manager
    ELSE [loaded |-> TRUE, gemini |-> load_config_api_keys(f)]

\* api_keys.get('gemini', '')
KeysGet(manager) == IF manager.gemini = None THEN "" ELSE manager.gemini

\* AnalysisPipeline.__init__(api_key)
AnalysisPipeline(key, manager) ==
    LET k == IF key \notin {None, ""} THEN key ELSE KeysGet(manager)
    IN  IF k = "" THEN [raised |-> "ValueError", api_key |-> k]
        ELSE [raised |-> "none", api_key |-> k]

\* before render: no configuration loaded, self.pipeline = None
CfgIdle ==
    /\ config_json = [file |-> "missing", entries |-> NoEntries]
    /\ config_manager = [loaded |-> FALSE, gemini |-> None]
    /\ warning = FALSE
    /\ pipeline = [raised |-> "none", api_key |-> None]
    /\ cpc = "start"

CfgInit ==
    /\ config_json \in ConfigFiles
    /\ config_manager = [loaded |-> FALSE, gemini |-> None]
    /\ warning = FALSE
    /\ pipeline = [raised |-> "none", api_key |-> None]
    /\ cpc = "start"

\* GoldenKeyDashboard.render: if not display_api_key_warning(): return
DisplayApiKeyWarning ==
    /\ cpc = "start"
    /\ warning' = display_api_key_warning(config_json)
    /\ cpc' = IF display_api_key_warning(config_json) THEN "shown" ELSE "returned"
    /\ UNCHANGED <<config_json, config_manager, pipeline>>
    /\ UNCHANGED <<dupontVars, parseVars, keyVars, mergeVars,
                    appVars, statsVars, batchVars, dashVars, techVars, priceVars, peVars>>

\* GoldenKeyDashboard._initialize_pipeline: self.pipeline = AnalysisPipeline()
InitializePipeline ==
    /\ cpc = "shown"
    /\ config_manager' = load_config(config_manager, config_json)
    /\ pipeline' = AnalysisPipeline(None, load_config(config_manager, config_json))
    /\ cpc' = "initialized"
    /\ UNCHANGED <<config_json, warning>>
    /\ UNCHANGED <<dupontVars, parseVars, keyVars, mergeVars,
                    appVars, statsVars, batchVars, dashVars, techVars, priceVars, peVars>>

CfgNext == DisplayApiKeyWarning \/ InitializePipeline

(***************************************************************************)
(* AnalysisPipeline.batch_analysis (analysis_pipeline.py): one task per    *)
(* symbol; a task waits at `async with semaphore`, runs                    *)
(* analyze_comprehensive, returns its result or an error entry, and        *)
(* as_completed hands the returned values over in completion order.        *)
(***************************************************************************)
MaxSymbols == 3
MaxConcurrent == 2

BatchLimit == 20

RECURSIVE SeqsUpTo(_, _)
SeqsUpTo(S, n) ==
    IF n = 0 THEN {<<>>}
    ELSE LET shorter == SeqsUpTo(S, n - 1)
         IN  shorter \cup {Append(s, x) : s \in shorter, x \in S}

SymbolLists == SeqsUpTo({"VCB", "FPT"}, MaxSymbols)

\* symbols[:20]
Limited(syms) ==
    IF Len(syms) > BatchLimit THEN SubSeq(syms, 1, BatchLimit) ELSE syms

\* a task that has not returned
NoValue == [kind |-> "none", symbol |-> ""]

\* the except branch: {"symbol": symbol, "error": str(e), ...}
ErrorEntry(sym) == [kind |-> "error", symbol |-> sym]

\* what analyze_comprehensive returned; whether that dict holds a "symbol"
\* key is decided by FourAgentManager.run_comprehensive_analysis
Analysis(sym, with_symbol) ==
    [kind |-> "ok", symbol |-> IF with_symbol THEN sym ELSE ""]

\* a mutant of CanAcquire: the task enters without a permit
CanAcquireAlways(permits) == TRUE

\* async with semaphore: the task enters when a permit is free
CanAcquire(permits) == permits > 0

Running == {i \in DOMAIN tasks : tasks[i].state = "running"}

\* result.get('symbol', f'unknown_{i}'), i the number collected before
ResultKey(value, i) ==
    IF value.symbol # "" THEN [symbol |-> value.symbol, unknown |-> -1]
    ELSE [symbol |-> "", unknown |-> i]

\* results[symbol] = result
SetItem(dict, key, value, task) ==
    {e \in dict : e.key # key}
        \cup {[key |-> key, kind |-> value.kind, task |-> task]}

BatchIdle ==
    /\ symbols = <<>>
    /\ max_concurrent = 1
    /\ semaphore = 0
    /\ tasks = <<>>
    /\ results = {}
    /\ completed = 0
    /\ bpc = "idle"

BatchInit ==
    /\ symbols \in SymbolLists
    /\ max_concurrent \in 0..MaxConcurrent
    /\ semaphore = 0
    /\ tasks = <<>>
    /\ results = {}
    /\ completed = 0
    /\ bpc = "called"

\* semaphore = asyncio.Semaphore(max_concurrent); tasks = [...]
CreateTasks ==
    /\ bpc = "called"
    /\ semaphore' = max_concurrent
    /\ tasks' = [i \in 1..Len(Limited(symbols)) |->
                    [state |-> "waiting", value |-> NoValue]]
    /\ bpc' = "collecting"
    /\ UNCHANGED <<symbols, max_concurrent, results, completed>>
    /\ UNCHANGED <<dupontVars, parseVars, keyVars, mergeVars,
                    appVars, statsVars, cfgVars, dashVars, techVars, priceVars, peVars>>

\* async with semaphore: (entered)
Acquire(i) ==
    /\ bpc = "collecting"
    /\ tasks[i].state = "waiting"
    /\ CanAcquire(semaphore)
    /\ semaphore' = semaphore - 1
    /\ tasks' = [tasks EXCEPT ![i].state = "running"]
    /\ UNCHANGED <<symbols, max_concurrent, results, completed, bpc>>
    /\ UNCHANGED <<dupontVars, parseVars, keyVars, mergeVars,
                    appVars, statsVars, cfgVars, dashVars, techVars, priceVars, peVars>>

\* return await self.analyze_comprehensive(symbol, user_profile)
AnalysisReturns(i, with_symbol) ==
    /\ bpc = "collecting"
    /\ tasks[i].state = "running"
    /\ semaphore' = semaphore + 1
    /\ tasks' = [tasks EXCEPT ![i] =
                    [state |-> "returned",
                     value |-> Analysis(symbols[i], with_symbol)]]
    /\ UNCHANGED <<symbols, max_concurrent, results, completed, bpc>>
    /\ UNCHANGED <<dupontVars, parseVars, keyVars, mergeVars,
                    appVars, statsVars, cfgVars, dashVars, techVars, priceVars, peVars>>

\* except Exception as e: return {"symbol": symbol, "error": str(e), ...}
AnalysisRaises(i) ==
    /\ bpc = "collecting"
    /\ tasks[i].state = "running"
    /\ semaphore' = semaphore + 1
    /\ tasks' = [tasks EXCEPT ![i] =
                    [state |-> "returned", value |-> ErrorEntry(symbols[i])]]
    /\ UNCHANGED <<symbols, max_concurrent, results, completed, bpc>>
    /\ UNCHANGED <<dupontVars, parseVars, keyVars, mergeVars,
                    appVars, statsVars, cfgVars, dashVars, techVars, priceVars, peVars>>

\* for i, task in enumerate(asyncio.as_completed(tasks)): result = await task
Collect(i) ==
    /\ bpc = "collecting"
    /\ tasks[i].state = "returned"
    /\ results' = SetItem(results, ResultKey(tasks[i].value, completed),
                          tasks[i].value, i)
    /\ completed' = completed + 1
    /\ tasks' = [tasks EXCEPT ![i].state = "collected"]
    /\ UNCHANGED <<symbols, max_concurrent, semaphore, bpc>>
    /\ UNCHANGED <<dupontVars, parseVars, keyVars, mergeVars,
                    appVars, statsVars, cfgVars, dashVars, techVars, priceVars, peVars>>

\* return {"batch_results": results, ...}
BatchReturns ==
    /\ bpc = "collecting"
    /\ \A i \in DOMAIN tasks : tasks[i].state = "collected"
    /\ bpc' = "returned"
    /\ UNCHANGED <<symbols, max_concurrent, semaphore, tasks, results, completed>>
    /\ UNCHANGED <<dupontVars, parseVars, keyVars, mergeVars,
                    appVars, statsVars, cfgVars, dashVars, techVars, priceVars, peVars>>

BatchNext ==
    \/ CreateTasks
    \/ \E i \in DOMAIN tasks : Acquire(i)
    \/ \E i \in DOMAIN tasks, with_symbol \in BOOLEAN : AnalysisReturns(i, with_symbol)
    \/ \E i \in DOMAIN tasks : AnalysisRaises(i)
    \/ \E i \in DOMAIN tasks : Collect(i)
    \/ BatchReturns

(***************************************************************************)
(* GoldenKeyDashboard (main_dashboard.py): every interaction of the user   *)
(* runs the script once: render, render_stock_input, render_main_analysis. *)
(* A text is a sequence of characters: a lower-case letter, a digit or a   *)
(* blank.                                                                  *)
(***************************************************************************)
MaxChars == 3
MaxClicks == 2

InputTexts == SeqsUpTo({"a", "1", " "}, MaxChars)

\* str.upper
Upper(t) == [i \in DOMAIN t |-> IF t[i] = "a" THEN "A" ELSE t[i]]

\* str.strip
RECURSIVE Strip(_)
Strip(t) ==
    IF t = <<>> THEN t
    ELSE IF Head(t) = " " THEN Strip(Tail(t))
    ELSE IF t[Len(t)] = " " THEN Strip(SubSeq(t, 1, Len(t) - 1))
    ELSE t

\* a mutant of InputSymbol: a blank text counts as a symbol
InputSymbolUnstripped(t) == Upper(t)

\* if symbol: symbol = symbol.upper().strip()
InputSymbol(t) == IF t = <<>> THEN t ELSE Strip(Upper(t))

\* validate_stock_symbol: re.match(r'^[A-Z]{3,4}$', symbol.upper().strip())
validate_stock_symbol(s) ==
    /\ s # <<>>
    /\ Len(Strip(Upper(s))) \in 3..4
    /\ \A i \in DOMAIN Strip(Upper(s)) : Strip(Upper(s))[i] = "A"

\* _initialize_session_state on the first run of a session
DashIdle ==
    /\ stock_input = <<>>
    /\ analyze_button = FALSE
    /\ should_analyze = FALSE
    /\ selected_symbol = <<>>
    /\ gpc = "waiting"
    /\ clicks = 0
    /\ analyses = 0
    /\ rendered = "none"

DashInit ==
    /\ stock_input \in InputTexts
    /\ analyze_button = FALSE
    /\ should_analyze = FALSE
    /\ selected_symbol = <<>>
    /\ gpc = "waiting"
    /\ clicks = 0
    /\ analyses = 0
    /\ rendered = "none"

\* the user edits the text input: the script runs again
TypeSymbol(t) ==
    /\ gpc = "waiting"
    /\ t # stock_input
    /\ stock_input' = t
    /\ analyze_button' = FALSE
    /\ gpc' = "render"
    /\ rendered' = "none"
    /\ UNCHANGED <<should_analyze, selected_symbol, clicks, analyses>>
    /\ UNCHANGED <<dupontVars, parseVars, keyVars, mergeVars,
                    appVars, statsVars, cfgVars, batchVars, techVars, priceVars, peVars>>

\* the user clicks the analyse button: the script runs again
ClickAnalyze ==
    /\ gpc = "waiting"
    /\ clicks < MaxClicks
    /\ analyze_button' = TRUE
    /\ clicks' = clicks + 1
    /\ gpc' = "render"
    /\ rendered' = "none"
    /\ UNCHANGED <<stock_input, should_analyze, selected_symbol, analyses>>
    /\ UNCHANGED <<dupontVars, parseVars, keyVars, mergeVars,
                    appVars, statsVars, cfgVars, batchVars, techVars, priceVars, peVars>>

\* render: if not display_api_key_warning(): return
RenderStops ==
    /\ gpc = "render"
    /\ analyze_button' = FALSE
    /\ gpc' = "waiting"
    /\ UNCHANGED <<stock_input, should_analyze, selected_symbol, clicks, analyses, rendered>>
    /\ UNCHANGED <<dupontVars, parseVars, keyVars, mergeVars,
                    appVars, statsVars, cfgVars, batchVars, techVars, priceVars, peVars>>

\* render_stock_input: a click with a symbol stores it, sets the trigger
\* and reruns the script (st.rerun()), in which the button is not clicked
RenderStockInput ==
    /\ gpc = "render"
    /\ IF analyze_button /\ InputSymbol(stock_input) # <<>>
       THEN /\ selected_symbol' = InputSymbol(stock_input)
            /\ should_analyze' = TRUE
            /\ analyze_button' = FALSE
            /\ gpc' = "render"
       ELSE /\ gpc' = "main"
            /\ UNCHANGED <<selected_symbol, should_analyze, analyze_button>>
    /\ UNCHANGED <<stock_input, clicks, analyses, rendered>>
    /\ UNCHANGED <<dupontVars, parseVars, keyVars, mergeVars,
                    appVars, statsVars, cfgVars, batchVars, techVars, priceVars, peVars>>

\* render_main_analysis: if st.session_state.get('should_analyze', False):
\*     st.session_state.should_analyze = False
CheckTrigger ==
    /\ gpc = "main"
    /\ IF should_analyze
       THEN /\ should_analyze' = FALSE
            /\ gpc' = "triggered"
            /\ UNCHANGED <<rendered, analyze_button>>
       ELSE /\ rendered' = "nothing"
            /\ analyze_button' = FALSE
            /\ gpc' = "waiting"
            /\ UNCHANGED should_analyze
    /\ UNCHANGED <<stock_input, selected_symbol, clicks, analyses>>
    /\ UNCHANGED <<dupontVars, parseVars, keyVars, mergeVars,
                    appVars, statsVars, cfgVars, batchVars, techVars, priceVars, peVars>>

\* if not validate_stock_symbol(symbol): st.error(...); return
\* if not self._initialize_pipeline(): return
StartAnalysis(initialized) ==
    /\ gpc = "triggered"
    /\ IF ~validate_stock_symbol(selected_symbol)
       THEN /\ rendered' = "invalid_symbol"
            /\ gpc' = "waiting"
            /\ UNCHANGED analyses
       ELSE IF ~initialized
       THEN /\ rendered' = "init_failed"
            /\ gpc' = "waiting"
            /\ UNCHANGED analyses
       ELSE /\ gpc' = "analyzing"
            /\ analyses' = analyses + 1
            /\ UNCHANGED rendered
    /\ analyze_button' = FALSE
    /\ UNCHANGED <<stock_input, should_analyze, selected_symbol, clicks>>
    /\ UNCHANGED <<dupontVars, parseVars, keyVars, mergeVars,
                    appVars, statsVars, cfgVars, batchVars, techVars, priceVars, peVars>>

\* result = asyncio.run(self.run_analysis(symbol, analysis_type)): a result,
\* an empty result, or an exception that the except branch shows
FinishAnalysis(how) ==
    /\ gpc = "analyzing"
    /\ rendered' = how
    /\ gpc' = "waiting"
    /\ UNCHANGED <<stock_input, analyze_button, should_analyze, selected_symbol, clicks, analyses>>
    /\ UNCHANGED <<dupontVars, parseVars, keyVars, mergeVars,
                    appVars, statsVars, cfgVars, batchVars, techVars, priceVars, peVars>>

DashNext ==
    \/ \E t \in InputTexts : TypeSymbol(t)
    \/ ClickAnalyze
    \/ RenderStops
    \/ RenderStockInput
    \/ CheckTrigger
    \/ \E initialized \in BOOLEAN : StartAnalysis(initialized)
    \/ \E how \in {"success", "no_result", "error"} : FinishAnalysis(how)

(***************************************************************************)
(* TechnicalAnalyst._parse_response after json.loads (technical_analyst.py *)
(* l.266-289).  A JSON value is absent (the key is missing), null, a       *)
(* number, or a string of digits with or without a trailing "%".           *)
(***************************************************************************)
Absent == [type |-> "absent", n |-> 0, suffix |-> ""]
Null == [type |-> "null", n |-> 0, suffix |-> ""]
Number(n) == [type |-> "number", n |-> n, suffix |-> ""]
String(n, suffix) == [type |-> "string", n |-> n, suffix |-> suffix]

Actions == {"BUY", "HOLD", "SELL"}

\* the values the model may give for a score or a percentage
ScoreValues ==
    {Absent, Null, Number(0), Number(80), String(80, ""), String(95, "%")}

\* the objects of the reply: strategy_recommendation is absent or an object
\* with or without an action; investment_scores and data_quality are
\* objects, their entries any value
TechObjects ==
    [strategy : {"absent", "object"},
     action : Actions \cup {"absent"},
     reliability_score : ScoreValues,
     completeness : ScoreValues \ {Number(0)}]

\* the reply follows the schema of the prompt: action "BUY/HOLD/SELL",
\* reliability_score a number, completeness "<%>"
FollowsSchema(data) ==
    /\ data.strategy = "object"
    /\ data.action \in Actions
    /\ data.reliability_score.type = "number"
    /\ data.completeness.type = "string"
    /\ data.completeness.suffix = "%"

\* dict.get(key, default)
GetOr(value, default) == IF value.type = "absent" THEN default ELSE value

\* float(x): a number, or a string that is a number; float("95%") raises
\* ValueError and float(None) raises TypeError
Float(x) ==
    IF x.type = "number" THEN [raised |-> "none", value |-> x.n]
    ELSE IF x.type = "string" /\ x.suffix = ""
         THEN [raised |-> "none", value |-> x.n]
    ELSE IF x.type = "string" THEN [raised |-> "ValueError", value |-> 0]
    ELSE [raised |-> "TypeError", value |-> 0]

\* strat.get("action", "NA")
ActionOf(data) ==
    IF data.strategy = "absent" \/ data.action = "absent" THEN "NA"
    ELSE data.action

\* the except branch of _parse_response
TechParseError ==
    [recommendation |-> "PARSE_ERROR", confidence_level |-> 0,
     data_quality |-> 0, content |-> "raw"]

\* _parse_response from `strat = data.get(...)` on
parse_technical(data) ==
    LET conf == Float(GetOr(data.reliability_score, Number(50)))
        dq   == Float(GetOr(data.completeness, Number(50)))
    IN  IF conf.raised # "none" \/ dq.raised # "none" THEN TechParseError
        ELSE [recommendation |-> ActionOf(data),
              confidence_level |-> conf.value,
              data_quality |-> dq.value,
              content |-> "data"]

TechIdle ==
    /\ tech_data = [strategy |-> "absent", action |-> "absent",
                    reliability_score |-> Absent, completeness |-> Absent]
    /\ tech_response = TechParseError
    /\ tpc = "idle"

TechInit ==
    /\ tech_data \in TechObjects
    /\ tech_response = TechParseError
    /\ tpc = "loaded"

\* parsed_response = self._parse_response(response_text)
ParseTechnical ==
    /\ tpc = "loaded"
    /\ tech_response' = parse_technical(tech_data)
    /\ tpc' = "parsed"
    /\ UNCHANGED tech_data
    /\ UNCHANGED <<dupontVars, parseVars, keyVars, mergeVars,
                    appVars, statsVars, cfgVars, batchVars, dashVars, priceVars, peVars>>

TechNext == ParseTechnical

(***************************************************************************)
(* PriceAPI.get_price_history, get_enhanced_price_history and              *)
(* get_comprehensive_analysis (price_api.py).  The provider returns None   *)
(* or a table, with or without a time column, of daily closes in time      *)
(* order.                                                                  *)
(***************************************************************************)
MaxBars == 3

ProviderTables ==
    {[kind |-> "None", has_time |-> FALSE, closes |-> <<>>]}
        \cup [kind : {"table"}, has_time : BOOLEAN,
              closes : SeqsUpTo({10, 11, 12}, MaxBars)]

\* the rows of a table: the time of row i and its close
Bars(closes, has_time) ==
    [i \in DOMAIN closes |->
        [time |-> IF has_time THEN Timestamp(i) ELSE [kind |-> "missing", day |-> 0],
         close |-> closes[i]]]

\* get_price_history: pd.DataFrame(columns=[...]) for no rows, whose time
\* column has dtype object; otherwise the table with its time column
\* converted by pd.to_datetime when it has one
get_price_history(q) ==
    IF q.kind = "None" \/ q.closes = <<>>
    THEN [time_dtype |-> "object", rows |-> <<>>]
    ELSE [time_dtype |-> IF q.has_time THEN "datetime64" ELSE "missing",
          rows |-> Bars(q.closes, q.has_time)]

\* df['time'].dt: KeyError without the column, AttributeError ("Can only
\* use .dt accessor with datetimelike values") on a column that is not
\* datetime64
DtAccessor(dtype) ==
    IF dtype = "missing" THEN "KeyError"
    ELSE IF dtype # "datetime64" THEN "AttributeError"
    ELSE "none"

\* get_enhanced_price_history
get_enhanced_price_history(q) ==
    LET df == get_price_history(q)
    IN  IF DtAccessor(df.time_dtype) # "none"
        THEN [raised |-> DtAccessor(df.time_dtype), columns |-> "none",
              rows |-> <<>>]
        ELSE [raised |-> "none", columns |-> "standard",
              rows |-> [i \in DOMAIN df.rows |->
                          [time |-> Strftime(df.rows[i].time),
                           close |-> df.rows[i].close]]]

NoSummary ==
    [raised |-> "none", latest_close |-> -1, price_data_points |-> -1,
     completeness_score |-> "none"]

\* get_comprehensive_analysis: the default summary for an empty table, the
\* close of the last row and the number of rows otherwise
get_comprehensive_analysis(q) ==
    LET df == get_enhanced_price_history(q)
    IN  IF df.raised # "none"
        THEN [NoSummary EXCEPT !.raised = df.raised]
        ELSE IF df.rows = <<>>
        THEN [raised |-> "none", latest_close |-> 0, price_data_points |-> 0,
              completeness_score |-> "0.0"]
        ELSE [raised |-> "none", latest_close |-> df.rows[Len(df.rows)].close,
              price_data_points |-> Len(df.rows),
              completeness_score |-> "computed"]

NotCalled == [raised |-> "none", columns |-> "none", rows |-> <<>>]

PriceIdle ==
    /\ quote_history = [kind |-> "None", has_time |-> FALSE, closes |-> <<>>]
    /\ enhanced = [called |-> FALSE, result |-> NotCalled]
    /\ comprehensive = [called |-> FALSE, result |-> NoSummary]

PriceInit ==
    /\ quote_history \in ProviderTables
    /\ enhanced = [called |-> FALSE, result |-> NotCalled]
    /\ comprehensive = [called |-> FALSE, result |-> NoSummary]

\* price_df = api.get_enhanced_price_history()
GetEnhancedPriceHistory ==
    /\ ~enhanced.called
    /\ enhanced' = [called |-> TRUE,
                    result |-> get_enhanced_price_history(quote_history)]
    /\ UNCHANGED <<quote_history, comprehensive>>
    /\ UNCHANGED <<dupontVars, parseVars, keyVars, mergeVars,
                    appVars, statsVars, cfgVars, batchVars, dashVars, techVars, peVars>>

\* comprehensive_analysis = api.get_comprehensive_analysis()
GetComprehensiveAnalysis ==
    /\ ~comprehensive.called
    /\ comprehensive' = [called |-> TRUE,
                         result |-> get_comprehensive_analysis(quote_history)]
    /\ UNCHANGED <<quote_history, enhanced>>
    /\ UNCHANGED <<dupontVars, parseVars, keyVars, mergeVars,
                    appVars, statsVars, cfgVars, batchVars, dashVars, techVars, peVars>>

PriceNext == GetEnhancedPriceHistory \/ GetComprehensiveAnalysis

(***************************************************************************)
(* PEValuationAnalyst.analyze (pe_valuation_analyst.py l.49-89): the       *)
(* trailing P/E table of compute_pe_trailing and the three values the      *)
(* analyst reads from it for the prompt.                                   *)
(***************************************************************************)
RowLimit == 1200

\* PEAPI.compute_pe_trailing: merge_price_ratio of the price history and
\* the ratio data
TrailingTables ==
    {<<>>} \cup UNION {
        {merge_price_ratio(PriceHistory(first, last),
                           RatioData(kind, n, 0, nanAt, 0)) :
            first \in {1, 2}, last \in {n, n + 1}, kind \in {"pow2", "zero"},
            nanAt \in 0..n} : n \in (MaxQuarters - 2)..MaxQuarters}

\* df.columns
Columns(df) == IF df = <<>> THEN {} ELSE DOMAIN df[1]

\* the column the analyst reads
PeColumn == "PE_trailing"

\* df.iloc[0][name] inside try/except: the value, or the exception
FirstCell(df, name) ==
    IF df = <<>> THEN [raised |-> "IndexError", value |-> NaN]
    ELSE IF name \notin Columns(df) THEN [raised |-> "KeyError", value |-> NaN]
    ELSE [raised |-> "none", value |-> df[1][name]]

\* _safe_calculate_pe_stats: float('nan') on any exception
safe_calculate_pe_stats(df) ==
    IF FirstCell(df, PeColumn).raised # "none" THEN NaN
    ELSE FirstCell(df, PeColumn).value

\* _safe_get_latest_price: None on any exception
safe_get_latest_price(df) ==
    IF FirstCell(df, "close").raised # "none"
    THEN [none |-> TRUE, value |-> NaN]
    ELSE [none |-> FALSE, value |-> FirstCell(df, "close").value]

\* df.head(limit)
HeadRows(df, limit) == IF Len(df) > limit THEN SubSeq(df, 1, limit) ELSE df

\* _safe_convert_to_dict: df[["time", "close", PeColumn]].head(limit) as
\* records, [] on any exception
safe_convert_to_dict(df, limit) ==
    IF ~({"time", "close", PeColumn} \subseteq Columns(df)) THEN <<>>
    ELSE [i \in 1..Len(HeadRows(df, limit)) |->
             [time |-> df[i].time, close |-> df[i].close,
              pe |-> df[i][PeColumn]]]

NoData ==
    [latest_pe |-> NaN, latest_price |-> [none |-> TRUE, value |-> NaN],
     data_analyst |-> <<>>]

PeIdle ==
    /\ petrailing_df = <<>>
    /\ analysis_data = NoData
    /\ vpc = "idle"

PeInit ==
    /\ petrailing_df \in TrailingTables
    /\ analysis_data = NoData
    /\ vpc = "computed"

\* analysis_data = {...}
BuildAnalysisData ==
    /\ vpc = "computed"
    /\ analysis_data' =
          [latest_pe |-> safe_calculate_pe_stats(petrailing_df),
           latest_price |-> safe_get_latest_price(petrailing_df),
           data_analyst |-> safe_convert_to_dict(petrailing_df, RowLimit)]
    /\ vpc' = "built"
    /\ UNCHANGED petrailing_df
    /\ UNCHANGED <<dupontVars, parseVars, keyVars, mergeVars, appVars, statsVars, cfgVars, batchVars, dashVars, techVars, priceVars>>

PeNext == BuildAnalysisData

DupontNext == ComputeRollingDupont

\* ---- properties of compute_rolling_dupont ----
Keys(table) == {<<table.rows[i].Nam, table.rows[i].Ky>> : i \in 1..Len(table.rows)}
MergedKeys  == Keys(income) \cap Keys(balance)

\* rows of the returned table that have at least Window earlier periods
PriorPeriods(i) ==
    Cardinality({j \in 1..Len(dupont) : KeyLess(dupont[j], dupont[i])})

\* a finite cell rounded to Decimals places, as an integer number of hundredths
Cents(x) == x[1] * (Pow10(Decimals) \div x[2])

\* roe = profit_margin/100 x asset_turnover x equity_multiplier x 100, within
\* what rounding each of the four cells to two decimals can account for.
\* With p, a, e, R the cells in hundredths the product is p*a*e/10^4 and the
\* slack is 1/2 + ((2p+1)(2a+1)(2e+1) - 8pae)/(8*10^4), both taken generously
\* so that the integer arithmetic stays exact.  A product that is NaN
\* (inf x 0) equals no roe.
IdentityHolds(r) ==
    LET pm == r.profit_margin
        at == r.asset_turnover
        em == r.equity_multiplier
    IN  IF IsFinite(pm) /\ IsFinite(at) /\ IsFinite(em) /\ IsFinite(r.roe)
        THEN LET p  == AbsI(Cents(pm))
                 a  == AbsI(Cents(at))
                 e  == AbsI(Cents(em))
                 sg == SgnF(pm) * SgnF(at) * SgnF(em)
                 R  == Cents(r.roe)
                 q  == (p * a) \div 100
                 lo == (q * e) \div 100
                 hi == (((q + 1) * e) \div 100) + 1
                 T  == 3 + ((p * a + p * e + a * e) \div 20000)
             IN  IF sg >= 0 THEN sg * lo - T <= R /\ R <= hi + T
                 ELSE -hi - T <= R /\ R <= -lo + T
        ELSE LET rhs == FMul(FMul(FMul(FDiv(pm, Num(100)), at), em), Num(100))
             IN  r.roe = rhs /\ ~IsNaN(rhs)

\* C1: every returned row with at least 4 prior periods satisfies
\* roe = profit_margin/100 x asset_turnover x equity_multiplier x 100 up to
\* rounding, whatever the input tables (zero TTM revenue, average assets or
\* average equity included).
C1_DupontIdentity ==
    dpc = "done" =>
        \A i \in 1..Len(dupont) : PriorPeriods(i) >= Window => IdentityHolds(dupont[i])

ColumnEmpty(table, c) ==
    /\ c \in table.cols
    /\ table.rows # <<>>
    /\ \A i \in 1..Len(table.rows) : IsNaN(table.rows[i][c].val)

OneEmptyColumn ==
    /\ NumericCols \subseteq (income.cols \cup balance.cols)
    /\ \/ \E c \in {"DoanhThuThuan", "LoiNhuanCongTyMe"} : ColumnEmpty(income, c)
       \/ \E c \in {"TongCongTaiSan", "VonChuSoHuu"} : ColumnEmpty(balance, c)

ComponentCells(r) == {r.profit_margin, r.asset_turnover, r.equity_multiplier, r.roe}

\* C2: with one of the four numeric input columns entirely empty/NaN,
\* compute_rolling_dupont does not raise and returns exactly one row per
\* merged (symbol, year, quarter), none of whose four component cells is NaN.
C2_EmptyColumnTolerated ==
    (dpc = "done" /\ OneEmptyColumn) =>
        /\ dupontRaised = "none"
        /\ Len(dupont) = Cardinality(MergedKeys)
        /\ {<<dupont[i].Nam, dupont[i].Ky>> : i \in 1..Len(dupont)} = MergedKeys
        /\ \A i \in 1..Len(dupont) : \A x \in ComponentCells(dupont[i]) : ~IsNaN(x)

\* an empty revenue column with non-zero income: the margin cell is +-inf,
\* the zero-filled cells are 0
C2_Witness ==
    /\ dpc = "done"
    /\ OneEmptyColumn
    /\ Len(dupont) >= Window
    /\ \E i \in 1..Len(dupont) : IsInf(dupont[i].profit_margin) /\ dupont[i].roe = Num(0)

\* C15 (as claimed): every output row is built from exactly four periods;
\* no row is computed from fewer.
C15_FourPeriodWindows ==
    (dpc = "done" /\ dupontRaised = "none") =>
        \A i \in 1..Len(dupont) : PriorPeriods(i) >= Window - 1

\* the merged periods in the window of output row i: its own and the up to
\* three merged periods before it
WindowKeys(i) ==
    {k \in MergedKeys :
        LET r == [Nam |-> k[1], Ky |-> k[2]]
        IN  /\ ~KeyLess(dupont[i], r)
            /\ Cardinality({j \in 1..Len(dupont) :
                              KeyLess(r, dupont[j]) /\ ~KeyLess(dupont[i], dupont[j])})
                 < Window}

OnlyKeys(table, ks) ==
    [table EXCEPT !.rows = SelectSeq(table.rows, LAMBDA r : <<r.Nam, r.Ky>> \in ks)]

\* C15 (amended): every output row is built from the window of the up to
\* four merged periods that end at it (min_periods = 1): the same row comes
\* out when the statements hold these periods only.  Rows are returned for
\* the first three periods too, built from one, two and three periods.
C15_UpToFourPeriods ==
    (dpc = "done" /\ dupontRaised = "none") =>
        /\ Len(dupont) = Cardinality(MergedKeys)
        /\ \A i \in 1..Len(dupont) :
              /\ Cardinality(WindowKeys(i)) = (IF PriorPeriods(i) < Window - 1
                                               THEN PriorPeriods(i) + 1 ELSE Window)
              /\ dupont[i] = compute_rolling_dupont(OnlyKeys(income, WindowKeys(i)),
                                                    OnlyKeys(balance, WindowKeys(i))).rows[1]

\* five merged periods with changing revenue: a full window and short ones
C15_Witness ==
    /\ dpc = "done" /\ dupontRaised = "none"
    /\ Len(dupont) > Window
    /\ dupont[1].asset_turnover # dupont[2].asset_turnover
    /\ IsFinite(dupont[Len(dupont)].profit_margin)
    /\ dupont[Len(dupont)].profit_margin[1] # 0

\* C23: for a symbol of every industry group the statements that
\* FundamentalAPI returns with the group's field lists are accepted by
\* compute_rolling_dupont: compact_market_data completes and yields the
\* DuPont rows of the common periods instead of raising on a column the
\* group's field list does not contain.
C23_EveryGroupAccepted ==
    (dpc = "done" /\ \E ind \in Industries :
                        /\ income.cols = IncomeFields(ind)
                        /\ balance.cols = BalanceFields(ind)) =>
        /\ dupontRaised = "none"
        /\ Len(dupont) = Cardinality(MergedKeys)

InitDupont ==
    DupontInit /\ ParseIdle /\ KeyIdle /\ MergeIdle /\ AppIdle /\ StatsIdle
    /\ CfgIdle /\ BatchIdle /\ DashIdle /\ TechIdle /\ PriceIdle /\ PeIdle
SpecDupont == InitDupont /\ [][DupontNext]_vars


\* ---- properties of the response parsing ----
\* the first balanced {...} substring of the text, <<>> when there is none
FirstBalanced == BalancedSlice(text)

\* the position of the brace that closes the first "{" (0 when nothing does)
FirstClose ==
    IF FirstBalanced = <<>> THEN 0 ELSE Find(text, "{") + Len(FirstBalanced) - 1

FencedBlocks ==
    {SubSeq(text, i + 1, j - 1) :
        <<i, j>> \in {ij \in (1..Len(text)) \X (1..Len(text)) :
                        /\ ij[1] < ij[2]
                        /\ text[ij[1]] = "fo"
                        /\ text[ij[2]] = "fc"
                        /\ \A k \in (ij[1] + 1)..(ij[2] - 1) : text[k] # "fc"}}

NothingParsed == ppc = "done" /\ response.content.kind = "raw" /\ ~ai_json.ok

IsPrefix(a, b) == Len(a) <= Len(b) /\ a = SubSeq(b, 1, Len(a))

\* C4: parse_json_from_markdown, given a text from which no JSON can be
\* parsed, returns an empty dict without raising and shows an error with the
\* raw text cut to its first 500 characters, followed by "..." only when cut.
C4_ParseFailureShown ==
    NothingParsed =>
        /\ parseRaised = "none"
        /\ ai_json.data = <<>>
        /\ shown.error
        /\ shown.dots <=> CharLen(text) > RawTextLimit
        /\ IsPrefix(shown.raw.toks, text)
        /\ CharLen(shown.raw.toks) + shown.raw.chars
             = (IF CharLen(text) > RawTextLimit THEN RawTextLimit ELSE CharLen(text))

\* ---- properties of get_api_key ----
HoldsKey(src) == src.has /\ src.val # ""
ConfigHoldsKey == config.state = "json" /\ HoldsKey(config)

\* C7 (as claimed): config.json first, then the environment variable, then
\* the secrets store: the key of the earliest source that holds one is
\* returned, and nothing (empty or None) when no source holds one.
C7_ConfigEnvSecrets ==
    kpc = "done" =>
        /\ ConfigHoldsKey => api_key_result = config.val
        /\ (~ConfigHoldsKey /\ HoldsKey(environ)) => api_key_result = environ.val
        /\ (~ConfigHoldsKey /\ ~HoldsKey(environ) /\ HoldsKey(secrets)) =>
               api_key_result = secrets.val
        /\ (~ConfigHoldsKey /\ ~HoldsKey(environ) /\ ~HoldsKey(secrets)) =>
               api_key_result \in {"", None}

\* C7 (amended): the order is secrets store, environment variable,
\* config.json.  An entry in the secrets store is returned whenever there is
\* one (even an empty one); otherwise a non-empty environment variable;
\* otherwise the entry of config.json; with no key in any source the result
\* is empty or None.
C7_SecretsEnvConfig ==
    kpc = "done" =>
        /\ secrets.has => api_key_result = secrets.val
        /\ (~secrets.has /\ HoldsKey(environ)) => api_key_result = environ.val
        /\ (~secrets.has /\ ~HoldsKey(environ) /\ ConfigHoldsKey) =>
               api_key_result = config.val
        /\ (~HoldsKey(secrets) /\ ~HoldsKey(environ) /\ ~ConfigHoldsKey) =>
               api_key_result \in {"", None}

\* all three sources hold a key and the one of the secrets store is returned
C7_Witness ==
    /\ kpc = "done"
    /\ HoldsKey(secrets) /\ HoldsKey(environ) /\ ConfigHoldsKey
    /\ api_key_result = "key-secrets"

\* no part of the text is a JSON object
NoJsonObject ==
    \A i, j \in 1..Len(text) : i < j => ~JsonLoads(SubSeq(text, i, j))

\* C20: the parse step of the three analysts raises nothing and returns an
\* AnalysisResponse for every text; when no JSON object can be parsed from
\* the text the response is PARSE_ERROR with confidence_level 0.0,
\* data_quality 0.0 and the raw text in its content.
C20_ParseStepTotal ==
    ppc # "start" =>
        /\ ppc = "parsed" => parseRaised = "none"
        /\ response.recommendation \in {"PARSE_ERROR", "NA"}
        /\ response.content.kind # "none"
        /\ (NoJsonObject \/ ~JsonLoads(BraceSlice(text))) =>
              /\ response.recommendation = "PARSE_ERROR"
              /\ response.confidence_level = 0
              /\ response.data_quality = 0
              /\ response.content.kind \in {"raw", "error_raw_response"}
              /\ response.content.toks = text

\* a text without any brace, parsed by the P/E analyst
C20_Witness ==
    /\ ppc = "parsed"
    /\ analyst = "pe"
    /\ Len(text) > 1
    /\ Find(text, "{") = 0 /\ Find(text, "}") = 0
    /\ response.recommendation = "PARSE_ERROR"
    /\ response.content.toks = text

InitParse ==
    ParseInit /\ DupontIdle /\ KeyIdle /\ MergeIdle /\ AppIdle /\ StatsIdle
    /\ CfgIdle /\ BatchIdle /\ DashIdle /\ TechIdle /\ PriceIdle /\ PeIdle
SpecParse == InitParse /\ [][ParseNext]_vars

InitKey ==
    KeyInit /\ DupontIdle /\ ParseIdle /\ MergeIdle /\ AppIdle /\ StatsIdle
    /\ CfgIdle /\ BatchIdle /\ DashIdle /\ TechIdle /\ PriceIdle /\ PeIdle
SpecKey == InitKey /\ [][KeyNext]_vars

\* ---- properties of merge_price_ratio ----
\* at most one row of the ratio table per (year, quarter)
UniqueQuarters(ratio) ==
    \A i, j \in 1..Len(ratio) : SameQuarter(ratio[i], ratio[j]) => i = j

\* PEtrailing of a row against its own close and EPS_nam, by
\* cross-multiplication: PEtrailing * EPS_nam = close * 1000
PriceOverEps(r) ==
    LET c == r.close
        e == r.EPS_nam
        q == r.PEtrailing
    IN  /\ IsNaN(e) => IsNaN(q)
        /\ (IsFinite(e) /\ e[1] = 0) => q = <<SgnF(c), 0>>
        /\ (IsFinite(e) /\ e[1] # 0) =>
               /\ IsFinite(q)
               /\ q[1] * e[1] * c[2] = c[1] * PriceScale * q[2] * e[2]

\* C8: with at most one ratio row per (year, quarter) the returned frame has
\* exactly one row per price row, in the order of the price rows, each with
\* the day and close of its price row and the EPS of the ratio row of its
\* (year, quarter), and PEtrailing = close * 1000 / EPS_nam of that row.
C8_LeftJoinPE ==
    (Len(outs) > 0 /\ UniqueQuarters(ratio_df)) =>
        LET df == outs[1]
        IN  /\ Len(df) = Len(price_df)
            /\ \A i \in 1..Len(df) :
                 /\ df[i].time.day = price_df[i].time.day
                 /\ df[i].close = price_df[i].close
                 /\ SameQuarter(df[i], price_df[i])
                 /\ \A k \in 1..Len(ratio_df) :
                        (SameQuarter(ratio_df[k], df[i]) /\ ~IsNaN(ratio_df[k].EPS))
                            => df[i].EPS = ratio_df[k].EPS
                 /\ PriceOverEps(df[i])

\* a price row of a quarter without a ratio row is kept, next to rows with a
\* finite PEtrailing
C8_Witness ==
    /\ Len(outs) > 0
    /\ UniqueQuarters(ratio_df)
    /\ \E i \in 1..Len(price_df) :
          \A k \in 1..Len(ratio_df) : ~SameQuarter(ratio_df[k], price_df[i])
    /\ \E i \in 1..Len(outs[1]) :
          IsFinite(outs[1][i].PEtrailing) /\ outs[1][i].PEtrailing[1] > 0

\* the EPS the ratio table reports for calendar quarter t, NaN when it
\* reports none
EpsOfQuarter(ratio, t) ==
    IF \E k \in 1..Len(ratio) : QuarterIndex(ratio[k]) = t /\ ~IsNaN(ratio[k].EPS)
    THEN (CHOOSE r \in {ratio[k] : k \in 1..Len(ratio)} :
              QuarterIndex(r) = t /\ ~IsNaN(r.EPS)).EPS
    ELSE NaN

\* the sum over the four consecutive calendar quarters that end at t, no
\* value when one of them has no data
TrailingFour(ratio, t) ==
    IF \E u \in (t - EpsWindow + 1)..t : IsNaN(EpsOfQuarter(ratio, u)) THEN NaN
    ELSE SumF([k \in 1..EpsWindow |-> EpsOfQuarter(ratio, t - EpsWindow + k)])

\* C9 (as claimed): the EPS_nam of every returned row is the sum of the EPS
\* of the four consecutive calendar quarters ending at the row's quarter,
\* and no value when the table lacks one of these four quarters.
C9_TrailingFourQuarters ==
    (Len(outs) > 0 /\ UniqueQuarters(ratio_df)) =>
        \A i \in 1..Len(outs[1]) :
            outs[1][i].EPS_nam = TrailingFour(ratio_df, QuarterIndex(outs[1][i]))

InitMerge ==
    MergeInit /\ DupontIdle /\ ParseIdle /\ KeyIdle /\ AppIdle /\ StatsIdle
    /\ CfgIdle /\ BatchIdle /\ DashIdle /\ TechIdle /\ PriceIdle /\ PeIdle
SpecMerge == InitMerge /\ [][MergeNext]_vars

\* ---- properties of app.py main ----
Started == code # "" /\ symbol # ""

\* C5 (as claimed): whatever the provider or the model API raises during one
\* analysis is caught at that call site and shown as a banner there; the run
\* goes on, so it ends with every analysis executed and the tabs rendered.
C5_FailureIsolated ==
    (apc = At("done", "end") /\ Started) =>
        /\ tabs
        /\ "unexpected_error" \notin banners
        /\ \A a \in AnalystSet : outcome[a] # "none"

\* C6: at most one request is in flight, and only the one of the analysis
\* main stands in; the analyses issue their requests in sequence; no analyst
\* issues more than one request, an analyze that got its answer or whose
\* call failed has issued exactly one, and after a failed call main is past
\* that analysis with nothing in flight.
C6_OneRequestInFlight ==
    /\ Cardinality(in_flight) <= 1
    /\ \A a \in in_flight : apc = At(a, "await")
    /\ \A a \in AnalystSet : requests[a] <= 1
    /\ \A a \in AnalystSet :
          outcome[a] \in {"returned", "call_failed"} =>
              requests[a] = 1 /\ a \notin in_flight
    /\ \A a \in AnalystSet : (apc.stage = a /\ apc.at = "await") =>
          requests[a] = 1 /\ in_flight = {a}
    /\ \A i, j \in 1..Len(Analyses) :
          (i < j /\ requests[Analyses[j]] > 0) => Analyses[i] \notin in_flight

\* all three analysts issued their request, the last call failed
C6_Witness ==
    /\ apc = At("done", "end")
    /\ \A a \in AnalystSet : requests[a] = 1
    /\ outcome["pe"] = "call_failed"
    /\ outcome["technical"] = "returned"

\* C25: the analysts are constructed and the model is called only when the
\* entered access code maps to a non-empty API key of config.json: a run
\* with an empty code or with a code that is not a key of the file stops
\* with an error before any analysis step.
C25_KeyedRunsOnly ==
    /\ (apc.stage \in AnalystSet \/ \E a \in AnalystSet : requests[a] > 0) =>
          (code # "" /\ CfgGet(code) # "" /\ api_key = CfgGet(code))
    /\ (apc = At("done", "end") /\ CfgGet(code) = "") =>
          (banners \cap {"code_error", "symbol_error"} # {} /\ ~tabs)

InitApp ==
    AppInit /\ DupontIdle /\ ParseIdle /\ KeyIdle /\ MergeIdle /\ StatsIdle
    /\ CfgIdle /\ BatchIdle /\ DashIdle /\ TechIdle /\ PriceIdle /\ PeIdle
SpecApp == InitApp /\ [][AppNext]_vars

\* ---- properties of calculate_pe_distribution_stats ----
Valid == Clean(pe_table.rows)
Computed == spc = "done" /\ "error" \notin stats_dict.keys

\* C11 (as claimed): current_percentile is 100 x (valid observations at or
\* below current_pe) / (valid observations), rounded to one decimal, also
\* when the current value occurs more than once.
C11_PercentileRankAtOrBelow ==
    Computed =>
        stats_dict.current_percentile
            = Round1(Norm(100 * CountLeq(Valid, Valid[1]), Len(Valid)))

Ties == CountLeq(Valid, Valid[1]) - CountLess(Valid, Valid[1])

\* C11 (amended): current_percentile is the rank percentile of the current
\* P/E, 100 x (observations below it + observations at or below it + 1)
\* / (2 x valid observations), rounded to one decimal; it is
\* 100 x (at or below) / (valid observations) when the current value occurs
\* once.
C11_PercentileRankMean ==
    Computed =>
        /\ stats_dict.current_percentile
             = Round1(Norm(50 * (CountLess(Valid, Valid[1])
                                   + CountLeq(Valid, Valid[1]) + 1), Len(Valid)))
        /\ Ties = 1 =>
             stats_dict.current_percentile
                 = Round1(Norm(100 * CountLeq(Valid, Valid[1]), Len(Valid)))

\* the current value occurs twice among several values and is not the largest
C11_Witness ==
    /\ Computed
    /\ Ties = 2
    /\ Len(Valid) > 3
    /\ CountLeq(Valid, Valid[1]) < Len(Valid)

\* the table with its latest observation replaced by h
WithLatest(df, h) ==
    [df EXCEPT !.rows = [i \in 1..Len(df.rows) |-> IF i = 1 THEN h ELSE df.rows[i]]]

HigherCells(x) == {h \in PeCells : IsFinite(h) /\ ~FLeq(h, x)}

\* C12: of two tables that differ only in a valid latest observation, the
\* one with the higher latest value has a current_percentile that is not
\* lower.
C12_PercentileMonotonic ==
    (Computed /\ IsFinite(pe_table.rows[1])) =>
        \A h \in HigherCells(pe_table.rows[1]) :
            FLeq(stats_dict.current_percentile,
                 calculate_pe_distribution_stats(WithLatest(pe_table, h)).current_percentile)

\* a higher latest value that gets a strictly higher percentile
C12_Witness ==
    /\ Computed
    /\ IsFinite(pe_table.rows[1])
    /\ Len(Valid) > 2
    /\ \E h \in HigherCells(pe_table.rows[1]) :
          ~FLeq(calculate_pe_distribution_stats(WithLatest(pe_table, h)).current_percentile,
                stats_dict.current_percentile)

\* |a - b| <= 1/20: a is b rounded to one decimal
WithinRounding(a, b) ==
    LET dlt == FAbs(FAdd(a, FNeg(b))) IN IsFinite(dlt) /\ FLeq(dlt, <<1, 20>>)

\* u/10 <= (current - mean) / (sample std) for the valid values xs, decided
\* on the squares: with a = n * current - sum and V = VarNumerator the
\* right-hand side is a * sqrt(n - 1) / sqrt(n * V)
TenthsBelowZ(u, xs) ==
    LET n == Len(xs)
        a == n * xs[1] - SumI(xs)
        V == VarNumerator(xs)
    IN  IF u <= 0 /\ a >= 0 THEN TRUE
        ELSE IF u > 0 /\ a < 0 THEN FALSE
        ELSE IF u > 0 THEN u * u * n * V <= 100 * a * a * (n - 1)
        ELSE u * u * n * V >= 100 * a * a * (n - 1)

\* the reported z-score is within one tenth of the reference z-score
ZMatches(z, xs) ==
    /\ IsFinite(z)
    /\ AbsI(Tenths(z)) <= 10 * Len(xs) + 1
    /\ TenthsBelowZ(Tenths(z) - 1, xs)
    /\ ~TenthsBelowZ(Tenths(z) + 2, xs)

\* C13 (as claimed): with at least two valid values the reported mean,
\* median and percentiles are the exact statistics rounded to one decimal,
\* current_z_score is within a tenth of (current - mean) / sample std of the
\* unrounded series, and it is undefined only when that std is zero.
C13_MatchesReference ==
    (Computed /\ Len(Valid) >= 2) =>
        /\ WithinRounding(stats_dict.mean, Mean(Valid))
        /\ WithinRounding(stats_dict.median, Percentile(Valid, 50))
        /\ \A p \in Percentiles :
              WithinRounding(stats_dict.percentiles[p], Percentile(Valid, p))
        /\ IsNaN(stats_dict.current_z_score) <=> VarNumerator(Valid) = 0
        /\ (VarNumerator(Valid) > 0 /\ Len(Valid) <= MaxObs + 1) =>
              ZMatches(stats_dict.current_z_score, Valid)

FiniteCells(rows) == Cardinality({i \in 1..Len(rows) : IsFinite(rows[i])})

\* C19: an empty table, a table without the P/E column and a table whose
\* P/E values are all NaN or infinite give a dict whose only key is
\* "error"; every other table gives statistics without "error", with count
\* the number of finite P/E values.
C19_BadInputIsValue ==
    spc = "done" =>
        IF pe_table.rows = <<>> \/ ~pe_table.has_column
              \/ FiniteCells(pe_table.rows) = 0
        THEN stats_dict.keys = {"error"}
        ELSE /\ "error" \notin stats_dict.keys
             /\ stats_dict.count = FiniteCells(pe_table.rows)

\* a table whose cells are all NaN or infinite
C19_Witness ==
    /\ spc = "done"
    /\ pe_table.has_column
    /\ Len(pe_table.rows) > 1
    /\ FiniteCells(pe_table.rows) = 0
    /\ stats_dict.keys = {"error"}

InitStats ==
    StatsInit /\ DupontIdle /\ ParseIdle /\ KeyIdle /\ MergeIdle /\ AppIdle
    /\ CfgIdle /\ BatchIdle /\ DashIdle /\ TechIdle /\ PriceIdle /\ PeIdle
SpecStats == InitStats /\ [][StatsNext]_vars

\* C16: a config.json with a top-level "gemini" entry holding a real key,
\* for which display_api_key_warning returned True, lets AnalysisPipeline()
\* read that key: the construction does not raise "API key is required".
C16_DocumentedKeyIsRead ==
    (cpc = "initialized" /\ warning) =>
        /\ pipeline.raised = "none"
        /\ pipeline.api_key = config_json.entries.gemini

InitCfg ==
     /\ CfgInit /\ DupontIdle /\ ParseIdle /\ KeyIdle /\ MergeIdle
    /\ AppIdle /\ StatsIdle /\ BatchIdle /\ DashIdle /\ TechIdle
    /\ PriceIdle /\ PeIdle

SpecCfg == InitCfg /\ [][CfgNext]_vars

\* the tasks whose analysis raised
Raised == {i \in DOMAIN tasks : tasks[i].value.kind = "error"}

\* the symbol of task i occurs once in the list
Once(i) == \A j \in DOMAIN tasks : symbols[j] = symbols[i] => j = i

\* C17: never more than max_concurrent analyze_comprehensive calls are in
\* progress; an analysis that raised gives back its permit and returns an
\* error entry for its symbol, which is the symbol's entry of the results,
\* and the other tasks are neither cancelled nor kept waiting: the batch
\* returns with every task collected and every other result as returned.
C17_BoundedAndIsolated ==
    bpc \in {"collecting", "returned"} =>
        /\ Cardinality(Running) <= max_concurrent
        /\ semaphore = max_concurrent - Cardinality(Running)
        /\ \A i \in Raised :
              /\ tasks[i].state \in {"returned", "collected"}
              /\ tasks[i].value = ErrorEntry(symbols[i])
              /\ (tasks[i].state = "collected" /\ Once(i)) =>
                    \E e \in results :
                        /\ e.key = [symbol |-> symbols[i], unknown |-> -1]
                        /\ e.kind = "error"
                        /\ e.task = i
        /\ bpc = "returned" =>
              /\ completed = Len(tasks)
              /\ \A i \in DOMAIN tasks : tasks[i].state = "collected"

\* two analyses in progress beside one that raised, the limit being two
C17_Witness ==
    /\ bpc = "collecting"
    /\ max_concurrent = 2
    /\ Len(tasks) = 3
    /\ Cardinality(Running) = 2
    /\ Raised # {}
    /\ \E e \in results : e.kind = "error"

InitBatch ==
     /\ BatchInit /\ DupontIdle /\ ParseIdle /\ KeyIdle /\ MergeIdle
    /\ AppIdle /\ StatsIdle /\ CfgIdle /\ DashIdle /\ TechIdle /\ PriceIdle
    /\ PeIdle

SpecBatch == InitBatch /\ [][BatchNext]_vars

\* C18: should_analyze is a one-shot trigger: it becomes True only in the
\* run of a click with a non-empty symbol, an analysis starts only from a
\* set trigger and after its reset, each click starts at most one analysis,
\* and the flag is False when render_main_analysis has returned, whatever
\* its outcome.
C18_OneShotTrigger ==
    /\ [](/\ analyses <= clicks
          /\ gpc \in {"triggered", "analyzing"} => ~should_analyze
          /\ (gpc = "waiting" /\ rendered # "none") => ~should_analyze)
    /\ [][/\ (should_analyze' /\ ~should_analyze) =>
                (analyze_button /\ InputSymbol(stock_input) # <<>>
                    /\ \E i \in DOMAIN stock_input : stock_input[i] # " ")
          /\ analyses' # analyses =>
                (gpc = "triggered" /\ ~should_analyze /\ analyses' = analyses + 1)
          /\ gpc' = "triggered" => (should_analyze /\ ~should_analyze')]_vars

\* two clicks, two analyses, the second ended in an error
C18_Witness ==
    /\ clicks = 2
    /\ analyses = 2
    /\ gpc = "waiting"
    /\ rendered = "error"
    /\ ~should_analyze

InitDash ==
     /\ DashInit /\ DupontIdle /\ ParseIdle /\ KeyIdle /\ MergeIdle
    /\ AppIdle /\ StatsIdle /\ CfgIdle /\ BatchIdle /\ TechIdle /\ PriceIdle
    /\ PeIdle

SpecDash == InitDash /\ [][DashNext]_vars

\* C21: for a JSON object that follows the schema of the technical prompt
\* (completeness a percent string, reliability_score a number),
\* _parse_response returns strategy_recommendation.action as the
\* recommendation and the parsed object as content, not PARSE_ERROR.
C21_SchemaReplyParsed ==
    (tpc = "parsed" /\ FollowsSchema(tech_data)) =>
        /\ tech_response.recommendation = tech_data.action
        /\ tech_response.content = "data"

InitTech ==
     /\ TechInit /\ DupontIdle /\ ParseIdle /\ KeyIdle /\ MergeIdle
    /\ AppIdle /\ StatsIdle /\ CfgIdle /\ BatchIdle /\ DashIdle /\ PriceIdle
    /\ PeIdle

SpecTech == InitTech /\ [][TechNext]_vars

\* the provider returned no price rows
NoPriceRows == quote_history.kind = "None" \/ quote_history.closes = <<>>

\* C22: when the provider returns no price rows, get_comprehensive_analysis
\* returns, without raising, the default summary (latest_close 0,
\* price_data_points 0, completeness_score 0.0) and
\* get_enhanced_price_history returns an empty table with the standard
\* columns.
C22_NoRowsDefaults ==
    NoPriceRows =>
        /\ comprehensive.called =>
              /\ comprehensive.result.raised = "none"
              /\ comprehensive.result.latest_close = 0
              /\ comprehensive.result.price_data_points = 0
              /\ comprehensive.result.completeness_score = "0.0"
        /\ enhanced.called =>
              /\ enhanced.result.raised = "none"
              /\ enhanced.result.columns = "standard"
              /\ enhanced.result.rows = <<>>

InitPrice ==
     /\ PriceInit /\ DupontIdle /\ ParseIdle /\ KeyIdle /\ MergeIdle
    /\ AppIdle /\ StatsIdle /\ CfgIdle /\ BatchIdle /\ DashIdle /\ TechIdle
    /\ PeIdle

SpecPrice == InitPrice /\ [][PriceNext]_vars

\* C24: when the trailing P/E table is non-empty with a finite trailing P/E
\* in its first row, the latest_pe placed in the prompt is that value and
\* data_analyst holds the (time, close, trailing P/E) rows of the table up
\* to the limit, not NaN and an empty list.
C24_LatestPeInPrompt ==
    (vpc = "built" /\ petrailing_df # <<>>
        /\ IsFinite(petrailing_df[1].PEtrailing)) =>
        /\ analysis_data.latest_pe = petrailing_df[1].PEtrailing
        /\ Len(analysis_data.data_analyst) = Len(HeadRows(petrailing_df, RowLimit))
        /\ \A i \in 1..Len(analysis_data.data_analyst) :
              /\ analysis_data.data_analyst[i].time = petrailing_df[i].time
              /\ analysis_data.data_analyst[i].close = petrailing_df[i].close
              /\ analysis_data.data_analyst[i].pe = petrailing_df[i].PEtrailing

InitPe ==
    /\ PeInit
    /\ DupontIdle /\ ParseIdle /\ KeyIdle /\ MergeIdle /\ AppIdle /\ StatsIdle
    /\ CfgIdle /\ BatchIdle /\ DashIdle /\ TechIdle /\ PriceIdle

SpecPe == InitPe /\ [][PeNext]_vars

====
